---- MODULE Spec2Model ----
(***************************************************************************)
(* Iterative candidate-selection engines of edcube_mvp.                    *)
(*                                                                         *)
(* Four instantiations share one control-flow skeleton:                    *)
(*   "backend"   backend/populator/video_generator.py                      *)
(*               generate_videos_for_section (called by the orchestrator)  *)
(*   "cli"       populator/resource_generator.py                           *)
(*               generate_resources_for_outline (one section of the loop)  *)
(*   "worksheet" backend/hands_on/worksheet_generator.py                   *)
(*   "activity"  backend/hands_on/activity_generator.py                    *)
(*                                                                         *)
(* External collaborators (YouTube / Google search, the LLM) are inputs    *)
(* drawn from small sets of fixture records.  Scores are kept exact by     *)
(* scaling them to integers; every scale is named next to its operator.    *)
(***************************************************************************)
EXTENDS Integers, Sequences, FiniteSets, TLC

(***************************************************************************)
(* Bounds of the model                                                     *)
(***************************************************************************)
\* size of the universe of video ids the search can return
MaxVideoIds == 4
\* largest number of distinct ids the searches of one iteration return
MaxFound == 3
\* largest number of search results of the worksheet / activity search
MaxSearchResults == 3
\* largest num_options a caller passes to the hands-on generators
MaxNumOptions == 3
\* largest number of sections of the outline the CLI populator enriches
MaxSections == 2

(***************************************************************************)
(* Program constants                                                       *)
(***************************************************************************)
YOUTUBE_MAX_VIDEOS_PER_SECTION == 3
MAX_SEARCH_ITERATIONS == 3
CONVERGENCE_THRESHOLD == 10
\* populator/config.py (CLI)
CLI_MIN_CONTENT_COVERAGE_PERCENTAGE == 60
CLI_MAX_REDUNDANCY_PERCENTAGE == 60
\* MIN_VIEW_COUNT = 10000 as a power of ten, MIN_LIKE_RATIO = 0.005 in 1/1000
CLI_MIN_VIEW_COUNT_LOG10 == 4
CLI_MIN_LIKE_RATIO_PERMILLE == 5
\* backend/config.py, class PopulatorConfig
BACKEND_MIN_CONTENT_COVERAGE_PERCENTAGE == 20
BACKEND_MAX_REDUNDANCY_PERCENTAGE == 80
\* backend/config.py, class HandsOnConfig
TIMEOUT_SECONDS == 30
\* grade level of the run ("5"): ATTENTION_SPAN_RANGES[5] = (10, 15),
\* WPM_RANGES['elementary'] = (100, 130)
ATTENTION_SPAN_MIN == 10
ATTENTION_SPAN_MAX == 15
WPM_MIN == 100
WPM_MAX == 130

\* The attribute names class PopulatorConfig of backend/config.py defines.
PopulatorConfigAttrs ==
    { "YOUTUBE_MAX_RESULTS_PER_QUERY", "YOUTUBE_MAX_VIDEOS_PER_SECTION",
      "MIN_VIEW_COUNT", "MIN_LIKE_RATIO", "PREFER_VERIFIED_CHANNELS",
      "WPM_RANGES", "ATTENTION_SPAN_RANGES", "DEMOGRAPHIC_REQUIREMENTS",
      "MIN_CONTENT_COVERAGE_PERCENTAGE", "MAX_REDUNDANCY_PERCENTAGE",
      "MAX_SEARCH_ITERATIONS", "CONVERGENCE_THRESHOLD", "OUTPUTS_DIR",
      "INPUT_OUTLINE_FILE", "OUTPUT_OUTLINE_FILE", "OUTPUT_OUTLINE_TXT_FILE" }

\* The attribute backend/populator/video_filter.py line 50 reads.
CoverageThresholdAttr == "MIN_CONTENT_COVERAGE"

(***************************************************************************)
(* Helpers                                                                 *)
(***************************************************************************)
Min(a, b) == IF a <= b THEN a ELSE b

Abs(a) == IF a < 0 THEN -a ELSE a

RECURSIVE SumSeq(_)
SumSeq(s) == IF s = <<>> THEN 0 ELSE Head(s) + SumSeq(Tail(s))

\* Python's s[:n] for n >= 0
Take(s, n) == SubSeq(s, 1, Min(n, Len(s)))

\* [e for e in s if P(e)]
RECURSIVE SelectSeqBy(_, _)
SelectSeqBy(s, keep) ==
    IF s = <<>> THEN <<>>
    ELSE IF keep[Head(s)] THEN <<Head(s)>> \o SelectSeqBy(Tail(s), keep)
         ELSE SelectSeqBy(Tail(s), keep)

\* list.sort(key=..., reverse=True) and sorted(..., reverse=True): a stable
\* sort, descending by key.  The argument is a sequence of <<key, element>>
\* pairs; an element goes behind every element whose key is >= its own.
RECURSIVE InsertDesc(_, _)
InsertDesc(sorted, p) ==
    IF sorted = <<>> THEN <<p>>
    ELSE IF Head(sorted)[1] >= p[1]
         THEN <<Head(sorted)>> \o InsertDesc(Tail(sorted), p)
         ELSE <<p>> \o sorted

RECURSIVE SortDescFrom(_, _)
SortDescFrom(acc, s) ==
    IF s = <<>> THEN acc
    ELSE SortDescFrom(InsertDesc(acc, Head(s)), Tail(s))

SortPairsDesc(pairs) == SortDescFrom(<<>>, pairs)

\* faulty variant of SortByScoreDesc: the list is left in arrival order
SortByScoreDesc_Unsorted(s) == s

\* sort a sequence of records descending by their score field
SortByScoreDesc(s) ==
    LET sorted == SortPairsDesc([i \in 1..Len(s) |-> <<s[i].score, s[i]>>])
    IN  [i \in 1..Len(s) |-> sorted[i][2]]

(***************************************************************************)
(* Video candidates                                                        *)
(*                                                                         *)
(* What get_video_details and the three analysis calls return for one      *)
(* video, as far as the filters and scorers read it:                       *)
(*   has_id            video['video_id'] is a non-empty string             *)
(*   cov               content_coverage['coverage_percentage']             *)
(*   log10_views       view_count = 10^log10_views (-1: view_count = 0)    *)
(*   likes_permille    like_count / view_count in 1/1000                   *)
(*   duration_seconds                                                      *)
(*   recency_points    the addend of the backend scorer's recency step,    *)
(*                     which depends on published_at and datetime.now()    *)
(*   channel_score_x2  2 * calculate_channel_demographic_score(...)        *)
(*   blacklisted       get_channel_tier(channel_name) = -1                 *)
(*   wpm               words per minute, -1 for None (no transcript)       *)
(*   topics            topics_covered of analyze_video_content             *)
(***************************************************************************)
VideoFixtures ==
    { [has_id |-> TRUE, cov |-> 90, log10_views |-> 6, likes_permille |-> 20,
       duration_seconds |-> 600, recency_points |-> 20,
       channel_score_x2 |-> 8, blacklisted |-> FALSE, wpm |-> 115,
       topics |-> <<"topic1", "topic2">>],
      [has_id |-> TRUE, cov |-> 65, log10_views |-> 4, likes_permille |-> 8,
       duration_seconds |-> 1200, recency_points |-> 5,
       channel_score_x2 |-> 1, blacklisted |-> FALSE, wpm |-> -1,
       topics |-> <<"topic1">>],
      [has_id |-> TRUE, cov |-> 10, log10_views |-> 7, likes_permille |-> 20,
       duration_seconds |-> 120, recency_points |-> 15,
       channel_score_x2 |-> 6, blacklisted |-> FALSE, wpm |-> 140,
       topics |-> <<"topic3">>],
      [has_id |-> FALSE, cov |-> 50, log10_views |-> 1, likes_permille |-> 0,
       duration_seconds |-> 0, recency_points |-> 0,
       channel_score_x2 |-> 0, blacklisted |-> TRUE, wpm |-> -1,
       topics |-> <<>>] }

\* redundancy_percentage the LLM (or the failure default, 20) reports against
\* a non-empty accepted list
RedundancyValues == {20, 90}

\* section.get('duration_minutes', 0) of the section of the run
SECTION_DURATION_MINUTES == 20

\* ---- backend/populator/video_filter.py --------------------------------

\* faulty variant of _passes_duration_filter: the two ends are rejected
_passes_duration_filter_Strict(video) ==
    /\ video.duration_seconds # 0
    /\ ~(video.duration_seconds <= 120)
    /\ ~(video.duration_seconds >= 1800)

\* duration between 2 and 30 minutes; a duration of 0 is "not duration"
_passes_duration_filter(video) ==
    /\ video.duration_seconds # 0
    /\ ~(video.duration_seconds < 120)
    /\ ~(video.duration_seconds > 1800)

\* view_count >= 100
_passes_quality_filter(video) == ~(video.log10_views < 2)

\* faulty variant of RecencyPoints: the brackets exclude their upper ends
RecencyPoints_Exclusive(published_at, age_days) ==
    IF published_at = "none" THEN 0
    ELSE IF published_at = "unparsable" THEN 10
    ELSE IF age_days < 365 THEN 20
    ELSE IF age_days < 2 * 365 THEN 15
    ELSE IF age_days < 3 * 365 THEN 10
    ELSE IF age_days < 5 * 365 THEN 5
    ELSE 2

\* The recency addend of _calculate_ranking_score: nothing without
\* published_at, 10 when it does not parse, else by
\* age_years = (datetime.now() - pub_date).days / 365
RecencyPoints(published_at, age_days) ==
    IF published_at = "none" THEN 0
    ELSE IF published_at = "unparsable" THEN 10
    ELSE IF age_days <= 365 THEN 20
    ELSE IF age_days <= 2 * 365 THEN 15
    ELSE IF age_days <= 3 * 365 THEN 10
    ELSE IF age_days <= 5 * 365 THEN 5
    ELSE 2

\* Ranking score in 1/140 points (coverage * 50 / 100, log10(views) * 15 / 7,
\* like ratio * 15 / 0.1 and the recency addend are all whole in that unit).
_calculate_ranking_score(video) ==
    LET coverage == video.cov * 70
        views    == IF video.log10_views >= 0
                    THEN Min(video.log10_views, 7) * 300 ELSE 0
        likes    == IF video.log10_views >= 0 /\ video.likes_permille > 0
                    THEN Min(video.likes_permille, 100) * 21 ELSE 0
        recency  == video.recency_points * 140
    IN  coverage + views + likes + recency

\* the redundancy check of filter_and_rank_videos:
\* redundancy.get('is_redundant', False)
BackendRedundancyRejects(video) == video.is_redundant

\* One pass of the loop body of filter_and_rank_videos over one video:
\* "skip" (continue), "raise" (the config attribute does not exist) or
\* "keep".
BackendFilterStep(video) ==
    IF ~video.has_id THEN "skip"
    ELSE IF CoverageThresholdAttr \notin PopulatorConfigAttrs THEN "raise"
    ELSE IF video.cov < BACKEND_MIN_CONTENT_COVERAGE_PERCENTAGE THEN "skip"
    ELSE IF BackendRedundancyRejects(video) THEN "skip"
    ELSE IF ~_passes_duration_filter(video) THEN "skip"
    ELSE IF ~_passes_quality_filter(video) THEN "skip"
    ELSE "keep"

\* filter_and_rank_videos of the backend: raised is TRUE when the loop hit
\* the AttributeError; otherwise out is the kept videos, scored and sorted.
BackendFilterAndRank(vs) ==
    LET raised == \E i \in 1..Len(vs) : BackendFilterStep(vs[i]) = "raise"
        keep   == [v \in {vs[i] : i \in 1..Len(vs)} |->
                       BackendFilterStep(v) = "keep"]
        kept   == SelectSeqBy(vs, keep)
        scored == [i \in 1..Len(kept) |->
                       [kept[i] EXCEPT
                           !.score = _calculate_ranking_score(kept[i])]]
    IN  [raised |-> raised,
         out    |-> IF raised THEN <<>> ELSE SortByScoreDesc(scored)]

\* ---- populator/video_filter.py (CLI) -----------------------------------

passes_filters(video) ==
    /\ ~(video.log10_views < CLI_MIN_VIEW_COUNT_LOG10)
    /\ ~(video.likes_permille < CLI_MIN_LIKE_RATIO_PERMILLE)
    /\ ~video.blacklisted
    /\ ~(video.duration_seconds > (ATTENTION_SPAN_MAX + 5) * 60)
    /\ ~(video.duration_seconds < 2 * 60)
    /\ ~(video.cov < CLI_MIN_CONTENT_COVERAGE_PERCENTAGE)
    /\ ~(video.red > CLI_MAX_REDUNDANCY_PERCENTAGE)

\* 2 * calculate_wpm_score
calculate_wpm_score_x2(wpm) ==
    IF wpm = -1 THEN 3
    ELSE IF WPM_MIN <= wpm /\ wpm <= WPM_MAX THEN 6
    ELSE IF WPM_MAX < wpm /\ wpm <= WPM_MAX + 20 THEN 3
    ELSE IF wpm > WPM_MAX + 20 THEN 0
    ELSE IF WPM_MIN - 20 <= wpm /\ wpm < WPM_MIN THEN 4
    ELSE 2

\* 2 * calculate_duration_score
calculate_duration_score_x2(duration_seconds) ==
    LET diff == Abs(duration_seconds - SECTION_DURATION_MINUTES * 60)
    IN  (IF ATTENTION_SPAN_MIN * 60 <= duration_seconds
            /\ duration_seconds <= ATTENTION_SPAN_MAX * 60 THEN 2 ELSE 0)
        + (IF diff <= 5 * 60 THEN 2 ELSE IF diff <= 10 * 60 THEN 1 ELSE 0)

\* 2 * calculate_engagement_score
calculate_engagement_score_x2(log10_views, likes_permille) ==
    IF log10_views = -1 THEN 0
    ELSE IF 10 <= likes_permille /\ likes_permille <= 30 THEN 4
    ELSE IF (5 <= likes_permille /\ likes_permille < 10)
            \/ (30 < likes_permille /\ likes_permille <= 50) THEN 2
    ELSE 1

\* calculate_relevance_score in 1/2400 points, capped at 10 points
calculate_relevance_score(video) ==
    LET channel    == video.channel_score_x2 * 750
        coverage   == video.cov * 60
        density    == calculate_wpm_score_x2(video.wpm) * 800
        uniqueness == 3600 - video.red * 36
        duration   == calculate_duration_score_x2(video.duration_seconds) * 600
        engagement == calculate_engagement_score_x2(video.log10_views,
                                                    video.likes_permille) * 300
    IN  Min(channel + coverage + density + uniqueness + duration + engagement,
            10 * 2400)

\* round(score, 2): the score in 1/100 points
Round2(score2400) == (score2400 * 2 + 24) \div 48

\* filter_and_rank_videos of the CLI
CliFilterAndRank(vs) ==
    LET keep   == [v \in {vs[i] : i \in 1..Len(vs)} |-> passes_filters(v)]
        kept   == SelectSeqBy(vs, keep)
        scored == [i \in 1..Len(kept) |->
                       [kept[i] EXCEPT
                           !.score =
                               Round2(calculate_relevance_score(kept[i]))]]
    IN  SortByScoreDesc(scored)

\* faulty variant of select_top_videos: the slice is forgotten
select_top_videos_Unsliced(filtered, num_to_select) == filtered

\* select_top_videos: filtered_videos[:num_to_select]
select_top_videos(filtered, num_to_select) == Take(filtered, num_to_select)

\* faulty variant of _calculate_section_coverage: round(avg) to the nearest
\* whole number instead of int(avg)
_calculate_section_coverage_Rounded(selected) ==
    IF selected = <<>> THEN 0
    ELSE (2 * SumSeq([i \in 1..Len(selected) |-> selected[i].cov])
             + Len(selected)) \div (2 * Len(selected))

\* _calculate_section_coverage / calculate_section_coverage:
\* int(sum(coverage) / len) and 0 for the empty list
_calculate_section_coverage(selected) ==
    IF selected = <<>> THEN 0
    ELSE SumSeq([i \in 1..Len(selected) |-> selected[i].cov]) \div Len(selected)

\* faulty variant of detect_redundancy: the LLM is asked also when nothing
\* has been accepted yet
detect_redundancy_AlwaysAsks(new_video_topics, existing_videos_data, llm_redundancy) ==
    [red |-> llm_redundancy, is_redundant |-> FALSE,
     unique_new_content |->
         IF llm_redundancy > 50 THEN <<>> ELSE new_video_topics,
     overlapping_topics |->
         IF llm_redundancy > 50 THEN new_video_topics ELSE <<>>,
     calls |-> 1]

\* detect_redundancy(topics, existing): 0 against an empty accepted list
\* without asking the LLM, else what the LLM answers (or the default 20 with
\* every topic unique when the call fails).  An LLM answer above 50 reports
\* every topic as overlapping, one below as unique.  calls is the number of
\* LLM calls made.  The returned dict never carries the key is_redundant.
detect_redundancy(new_video_topics, existing_videos_data, llm_redundancy) ==
    IF existing_videos_data = <<>>
    THEN [red |-> 0, is_redundant |-> FALSE,
          unique_new_content |-> new_video_topics,
          overlapping_topics |-> <<>>,
          calls |-> 0]
    ELSE [red |-> llm_redundancy, is_redundant |-> FALSE,
          unique_new_content |->
              IF llm_redundancy > 50 THEN <<>> ELSE new_video_topics,
          overlapping_topics |->
              IF llm_redundancy > 50 THEN new_video_topics ELSE <<>>,
          calls |-> 1]

\* number of LLM calls of the analysis loop for one video:
\* analyze_video_content, calculate_content_coverage and detect_redundancy
ClassifyCallsPerVideo(existing) ==
    2 + detect_redundancy(<<>>, existing, 0).calls

(***************************************************************************)
(* Query planning                                                          *)
(***************************************************************************)
\* generate_fallback_queries: a primary and a secondary query
generate_fallback_queries == <<"primary", "secondary">>

\* What generate_queries_for_section can return: the priorities of the LLM's
\* query list, or the fallback list when the LLM fails or returns none.
QueryLists ==
    { generate_fallback_queries,
      <<"primary", "secondary", "tertiary", "quaternary">> }

\* faulty variant of QuerySubset: an empty subset is searched as it is
QuerySubset_NoFallback(qs, it) ==
    LET all == [i \in 1..Len(qs) |-> i]
    IN  IF it = 1
        THEN SelectSeqBy(all, [i \in 1..Len(qs) |->
                                  qs[i] \in {"primary", "secondary"}])
        ELSE IF it = 2
        THEN SelectSeqBy(all, [i \in 1..Len(qs) |->
                                  qs[i] \in {"tertiary", "quaternary"}])
        ELSE all

\* iteration -> query subset of the backend engine (indices into queries)
QuerySubset(qs, it) ==
    LET all    == [i \in 1..Len(qs) |-> i]
        first  == [p \in {"primary", "secondary", "tertiary", "quaternary"}
                      |-> p \in {"primary", "secondary"}]
        second == [p \in {"primary", "secondary", "tertiary", "quaternary"}
                      |-> p \in {"tertiary", "quaternary"}]
        byPrio(keep) == SelectSeqBy(all, [i \in 1..Len(qs) |-> keep[qs[i]]])
        chosen == IF it = 1 THEN byPrio(first)
                  ELSE IF it = 2 THEN byPrio(second)
                  ELSE IF it = 3 THEN all
                  ELSE <<>>
    IN  IF chosen = <<>> THEN all ELSE chosen

(***************************************************************************)
(* utils/channel_database.py                                               *)
(*                                                                         *)
(* A channel name is the sequence of its characters, so that lower() and   *)
(* the substring test `key in channel_lower` are computed as Python        *)
(* computes them.                                                          *)
(***************************************************************************)
UpperCaseLetters ==
    <<"A", "B", "C", "D", "E", "F", "G", "H", "I", "J", "K", "L", "M", "N",
      "O", "P", "Q", "R", "S", "T", "U", "V", "W", "X", "Y", "Z">>

LowerCaseLetters ==
    <<"a", "b", "c", "d", "e", "f", "g", "h", "i", "j", "k", "l", "m", "n",
      "o", "p", "q", "r", "s", "t", "u", "v", "w", "x", "y", "z">>

\* str.lower()
Lower(name) ==
    [i \in 1..Len(name) |->
        IF \E k \in 1..26 : UpperCaseLetters[k] = name[i]
        THEN LowerCaseLetters[CHOOSE k \in 1..26 :
                                  UpperCaseLetters[k] = name[i]]
        ELSE name[i]]

\* key in name
Contains(key, name) ==
    \E i \in 0..(Len(name) - Len(key)) :
        SubSeq(name, i + 1, i + Len(key)) = key

\* TIER_1_CHANNELS in the order of the dict, with (min_grade, max_grade)
TIER_1_CHANNELS ==
    <<[key |->
          <<"c", "r", "a", "s", "h", " ", "c", "o", "u", "r", "s", "e", " ",
            "k", "i", "d", "s">>,
       min_grade |-> 3, max_grade |-> 6],
      [key |->
          <<"n", "a", "t", "i", "o", "n", "a", "l", " ", "g", "e", "o", "g",
            "r", "a", "p", "h", "i", "c", " ", "k", "i", "d", "s">>,
       min_grade |-> 2, max_grade |-> 5],
      [key |->
          <<"p", "b", "s", " ", "l", "e", "a", "r", "n", "i", "n", "g", "m",
            "e", "d", "i", "a">>,
       min_grade |-> 1, max_grade |-> 8],
      [key |->
          <<"f", "r", "e", "e", " ", "s", "c", "h", "o", "o", "l">>,
       min_grade |-> 3, max_grade |-> 7],
      [key |->
          <<"h", "o", "m", "e", "s", "c", "h", "o", "o", "l", " ", "p", "o",
            "p">>,
       min_grade |-> 1, max_grade |-> 5],
      [key |->
          <<"b", "r", "a", "i", "n", "p", "o", "p">>,
       min_grade |-> 3, max_grade |-> 8],
      [key |->
          <<"f", "l", "o", "c", "a", "b", "u", "l", "a", "r", "y">>,
       min_grade |-> 3, max_grade |-> 8],
      [key |->
          <<"h", "i", "s", "t", "o", "r", "y", " ", "f", "o", "r", " ", "k",
            "i", "d", "s">>,
       min_grade |-> 2, max_grade |-> 6],
      [key |->
          <<"s", "i", "m", "p", "l", "e", " ", "h", "i", "s", "t", "o", "r",
            "y">>,
       min_grade |-> 4, max_grade |-> 8],
      [key |->
          <<"p", "e", "e", "k", "a", "b", "o", "o", " ", "k", "i", "d", "z">>,
       min_grade |-> 1, max_grade |-> 4],
      [key |->
          <<"h", "a", "p", "p", "y", " ", "l", "e", "a", "r", "n", "i", "n",
            "g", " ", "e", "n", "g", "l", "i", "s", "h">>,
       min_grade |-> 2, max_grade |-> 6],
      [key |->
          <<"s", "m", "i", "l", "e", " ", "a", "n", "d", " ", "l", "e", "a",
            "r", "n">>,
       min_grade |-> 1, max_grade |-> 5]>>

\* TIER_2_CHANNELS in the order of the dict, with (min_grade, max_grade)
TIER_2_CHANNELS ==
    <<[key |->
          <<"n", "a", "t", "i", "o", "n", "a", "l", " ", "g", "e", "o", "g",
            "r", "a", "p", "h", "i", "c">>,
       min_grade |-> 3, max_grade |-> 12],
      [key |->
          <<"h", "i", "s", "t", "o", "r", "y", " ", "c", "h", "a", "n", "n",
            "e", "l">>,
       min_grade |-> 5, max_grade |-> 12],
      [key |->
          <<"b", "i", "o", "g", "r", "a", "p", "h", "y">>,
       min_grade |-> 5, max_grade |-> 12],
      [key |->
          <<"s", "m", "i", "t", "h", "s", "o", "n", "i", "a", "n">>,
       min_grade |-> 4, max_grade |-> 12],
      [key |->
          <<"d", "i", "s", "c", "o", "v", "e", "r", "y">>,
       min_grade |-> 4, max_grade |-> 12],
      [key |->
          <<"p", "b", "s">>,
       min_grade |-> 3, max_grade |-> 12],
      [key |->
          <<"t", "e", "d", "-", "e", "d">>,
       min_grade |-> 6, max_grade |-> 12],
      [key |->
          <<"s", "c", "i", "s", "h", "o", "w">>,
       min_grade |-> 6, max_grade |-> 12]>>

\* the blacklist: crashcourse, khan academy, mit opencourseware, stanford,
\* yale courses, coursera, udacity, ap
BLACKLIST_CHANNELS ==
    {<<"c", "r", "a", "s", "h", "c", "o", "u", "r", "s", "e">>,
     <<"k", "h", "a", "n", " ", "a", "c", "a", "d", "e", "m", "y">>,
     <<"m", "i", "t", " ", "o", "p", "e", "n", "c", "o", "u", "r", "s", "e",
       "w", "a", "r", "e">>,
     <<"s", "t", "a", "n", "f", "o", "r", "d">>,
     <<"y", "a", "l", "e", " ", "c", "o", "u", "r", "s", "e", "s">>,
     <<"c", "o", "u", "r", "s", "e", "r", "a">>,
     <<"u", "d", "a", "c", "i", "t", "y">>,
     <<"a", "p">>}

\* the channel names of the docstring examples: Crash Course Kids,
\* CrashCourse, Random Channel, National Geographic,
\* MIT OpenCourseWare, History Channel, TED-Ed
DocstringChannels ==
    {<<"C", "r", "a", "s", "h", " ", "C", "o", "u", "r", "s", "e", " ", "K",
       "i", "d", "s">>,
     <<"C", "r", "a", "s", "h", "C", "o", "u", "r", "s", "e">>,
     <<"R", "a", "n", "d", "o", "m", " ", "C", "h", "a", "n", "n", "e", "l">>,
     <<"N", "a", "t", "i", "o", "n", "a", "l", " ", "G", "e", "o", "g", "r",
       "a", "p", "h", "i", "c">>,
     <<"M", "I", "T", " ", "O", "p", "e", "n", "C", "o", "u", "r", "s", "e",
       "W", "a", "r", "e">>,
     <<"H", "i", "s", "t", "o", "r", "y", " ", "C", "h", "a", "n", "n", "e",
       "l">>,
     <<"T", "E", "D", "-", "E", "d">>}

TableKeys(table) == {table[i].key : i \in 1..Len(table)}

\* get_channel_tier: -1 blacklisted, 1, 2, 0 unknown
get_channel_tier(channel_name) ==
    LET channel_lower == Lower(channel_name)
    IN  IF \E b \in BLACKLIST_CHANNELS : Contains(b, channel_lower) THEN -1
        ELSE IF \E k \in TableKeys(TIER_1_CHANNELS) :
                    Contains(k, channel_lower) THEN 1
        ELSE IF \E k \in TableKeys(TIER_2_CHANNELS) :
                    Contains(k, channel_lower) THEN 2
        ELSE 0

\* the first entry of a table whose key is in the name
FirstMatch(table, channel_lower) ==
    table[CHOOSE i \in 1..Len(table) :
              /\ Contains(table[i].key, channel_lower)
              /\ \A j \in 1..(i - 1) :
                    ~Contains(table[j].key, channel_lower)]

\* faulty variant of calculate_channel_demographic_score: the grade is not
\* looked at and an unknown channel scores like a blacklisted one
calculate_channel_demographic_score_x2_UnknownZero(channel_name, grade_level) ==
    IF get_channel_tier(channel_name) = 1 THEN 8
    ELSE IF get_channel_tier(channel_name) = 2 THEN 4
    ELSE 0

\* 2 * calculate_channel_demographic_score: 8 perfect, 6 close, 4 tier 1
\* outside its range or tier 2 in range, 2 tier 2 outside its range,
\* 1 unknown, 0 blacklisted
calculate_channel_demographic_score_x2(channel_name, grade_level) ==
    LET tier == get_channel_tier(channel_name)
        channel_lower == Lower(channel_name)
    IN  IF tier = -1 THEN 0
        ELSE IF tier = 1
        THEN LET e == FirstMatch(TIER_1_CHANNELS, channel_lower)
             IN  IF e.min_grade <= grade_level /\ grade_level <= e.max_grade
                 THEN 8
                 ELSE IF Abs(grade_level - e.min_grade) <= 2
                         \/ Abs(grade_level - e.max_grade) <= 2
                 THEN 6
                 ELSE 4
        ELSE IF tier = 2
        THEN LET e == FirstMatch(TIER_2_CHANNELS, channel_lower)
             IN  IF e.min_grade <= grade_level /\ grade_level <= e.max_grade
                 THEN 4
                 ELSE 2
        ELSE 1

(***************************************************************************)
(* Worksheets and activities                                               *)
(*                                                                         *)
(* A worksheet is what analyze_worksheet_image returned for one image plus *)
(* the answer _check_relevance gives for it (rel_ok is FALSE when that     *)
(* call fails and returns None).  An activity is one entry of a page's     *)
(* activities_found, likewise with its relevance answer.                   *)
(***************************************************************************)
WorksheetFixtures ==
    { [is_age_appropriate |-> TRUE, visual_quality |-> 8,
       educational_value |-> 8, has_topics |-> TRUE,
       has_images_or_art |-> TRUE, rel_ok |-> TRUE, is_suitable |-> TRUE,
       rel_cov |-> 80, rel_quality |-> 8, matches_grade |-> TRUE,
       matches_topic |-> TRUE],
      [is_age_appropriate |-> TRUE, visual_quality |-> 5,
       educational_value |-> 5, has_topics |-> TRUE,
       has_images_or_art |-> FALSE, rel_ok |-> TRUE, is_suitable |-> TRUE,
       rel_cov |-> 50, rel_quality |-> 5, matches_grade |-> FALSE,
       matches_topic |-> FALSE],
      [is_age_appropriate |-> FALSE, visual_quality |-> 9,
       educational_value |-> 9, has_topics |-> TRUE,
       has_images_or_art |-> TRUE, rel_ok |-> TRUE, is_suitable |-> TRUE,
       rel_cov |-> 90, rel_quality |-> 9, matches_grade |-> TRUE,
       matches_topic |-> TRUE],
      [is_age_appropriate |-> TRUE, visual_quality |-> 10,
       educational_value |-> 10, has_topics |-> TRUE,
       has_images_or_art |-> TRUE, rel_ok |-> TRUE, is_suitable |-> FALSE,
       rel_cov |-> 100, rel_quality |-> 10, matches_grade |-> TRUE,
       matches_topic |-> TRUE] }

ActivityFixtures ==
    { [has_name |-> TRUE, has_description |-> TRUE, nsteps |-> 5,
       has_materials |-> TRUE, has_duration |-> TRUE,
       has_objectives |-> TRUE, rel_ok |-> TRUE, is_suitable |-> TRUE,
       rel_cov |-> 80, rel_quality |-> 8],
      [has_name |-> TRUE, has_description |-> TRUE, nsteps |-> 2,
       has_materials |-> FALSE, has_duration |-> FALSE,
       has_objectives |-> FALSE, rel_ok |-> TRUE, is_suitable |-> FALSE,
       rel_cov |-> 40, rel_quality |-> 3],
      [has_name |-> TRUE, has_description |-> TRUE, nsteps |-> 3,
       has_materials |-> TRUE, has_duration |-> FALSE,
       has_objectives |-> FALSE, rel_ok |-> TRUE, is_suitable |-> FALSE,
       rel_cov |-> 10, rel_quality |-> 2],
      [has_name |-> TRUE, has_description |-> TRUE, nsteps |-> 12,
       has_materials |-> FALSE, has_duration |-> TRUE,
       has_objectives |-> FALSE, rel_ok |-> FALSE, is_suitable |-> FALSE,
       rel_cov |-> 0, rel_quality |-> 0],
      [has_name |-> FALSE, has_description |-> TRUE, nsteps |-> 4,
       has_materials |-> TRUE, has_duration |-> FALSE,
       has_objectives |-> FALSE, rel_ok |-> TRUE, is_suitable |-> TRUE,
       rel_cov |-> 90, rel_quality |-> 9] }

\* What one worker task hands back: <<>> when the task returned None, raised
\* or found nothing, else the resources it produced (one worksheet per image,
\* one or two activities per page).
WorksheetOutcomes == {<<>>} \cup {<<w>> : w \in WorksheetFixtures}

ActivityOutcomes ==
    {<<>>} \cup {<<a>> : a \in ActivityFixtures}
           \cup {<<a, a>> : a \in {b \in ActivityFixtures : ~b.is_suitable
                                                            /\ b.rel_ok}}

\* the resource record the generators keep: the fixture, where it came from
\* (task and position within the task's result) and its overall_score
\* (has_score: the key overall_score is present)
ResourceRecord(fixture, task, pos) ==
    [f |-> fixture, task |-> task, pos |-> pos, has_score |-> FALSE,
     score |-> 0]

\* ---- backend/hands_on/resource_filter.py -------------------------------

_is_quality_worksheet(w) ==
    /\ w.is_age_appropriate
    /\ ~(w.visual_quality < 5)
    /\ ~(w.educational_value < 5)
    /\ w.has_topics

_is_quality_activity(a) ==
    /\ a.has_name
    /\ a.has_description
    /\ ~(a.nsteps = 0 /\ ~a.has_materials)

\* faulty variant of _calculate_worksheet_score: the cap is forgotten
_calculate_worksheet_score_Uncapped(w) ==
    w.visual_quality * 25 + w.educational_value * 25
        + w.rel_cov * 3 + w.rel_quality * 20
        + (IF w.matches_grade THEN 50 ELSE 0)
        + (IF w.matches_topic THEN 50 ELSE 0)
        + (IF w.has_images_or_art THEN 50 ELSE 0)

\* overall score of a worksheet in 1/10 points, capped at 100 points
_calculate_worksheet_score(w) ==
    LET overall == w.visual_quality * 25 + w.educational_value * 25
                   + w.rel_cov * 3 + w.rel_quality * 20
        bonus   == (IF w.matches_grade THEN 50 ELSE 0)
                   + (IF w.matches_topic THEN 50 ELSE 0)
                   + (IF w.has_images_or_art THEN 50 ELSE 0)
    IN  Min(overall + bonus, 100 * 10)

\* overall score of an activity in 1/400 points, capped at 10 points
_calculate_activity_score(a) ==
    LET relevance == a.rel_cov * 14 + a.rel_quality * 140
        content   == ((IF a.nsteps > 0 THEN 4 ELSE 0)
                      + (IF a.has_materials THEN 2 ELSE 0)
                      + (IF a.has_duration THEN 1 ELSE 0)
                      + (IF a.has_objectives THEN 1 ELSE 0)) * 150
    IN  Min(relevance + content, 10 * 400)

\* the default score 7.0 of the fallback, in 1/400 points
FALLBACK_SCORE == 2800

\* a worksheet passes: quality gate, relevance answer received, is_suitable
WorksheetPasses(r) ==
    /\ _is_quality_worksheet(r.f)
    /\ r.f.rel_ok
    /\ r.f.is_suitable

\* an activity passes: quality gate, relevance answer received, and the
\* lenient OR of is_suitable, coverage >= 40, quality >= 6
ActivityPasses(r) ==
    /\ _is_quality_activity(r.f)
    /\ r.f.rel_ok
    /\ (r.f.is_suitable \/ r.f.rel_cov >= 40 \/ r.f.rel_quality >= 6)

\* number of _check_relevance calls a filter run makes
RelevanceCalls(rs) ==
    Cardinality({i \in 1..Len(rs) :
                    IF "is_age_appropriate" \in DOMAIN rs[i].f
                    THEN _is_quality_worksheet(rs[i].f)
                    ELSE _is_quality_activity(rs[i].f)})

\* faulty variant of filter_and_rank_worksheets: with the fallback of the
\* activity filter (first three of the pool, each scored 7.0)
filter_and_rank_worksheets_WithFallback(worksheets) ==
    LET keep   == [r \in {worksheets[i] : i \in 1..Len(worksheets)} |->
                       WorksheetPasses(r)]
        kept   == SelectSeqBy(worksheets, keep)
        scored == [i \in 1..Len(kept) |->
                       [kept[i] EXCEPT
                           !.has_score = TRUE,
                           !.score = _calculate_worksheet_score(kept[i].f)]]
        top    == Take(worksheets, 3)
    IN  IF Len(scored) = 0 /\ Len(worksheets) > 0
        THEN [i \in 1..Len(top) |->
                 [top[i] EXCEPT !.has_score = TRUE, !.score = 70]]
        ELSE SortByScoreDesc(scored)

filter_and_rank_worksheets(worksheets) ==
    LET keep   == [r \in {worksheets[i] : i \in 1..Len(worksheets)} |->
                       WorksheetPasses(r)]
        kept   == SelectSeqBy(worksheets, keep)
        scored == [i \in 1..Len(kept) |->
                       [kept[i] EXCEPT
                           !.has_score = TRUE,
                           !.score = _calculate_worksheet_score(kept[i].f)]]
    IN  SortByScoreDesc(scored)

\* faulty variant of FallbackCondition: the fallback tops up a short list
FallbackCondition_TopUp(filtered, activities) ==
    Len(filtered) < 3 /\ Len(activities) > 0

\* the condition under which filter_and_rank_activities takes the fallback
FallbackCondition(filtered, activities) ==
    Len(filtered) = 0 /\ Len(activities) > 0

\* faulty variant of FallbackActivities: activities without a name or a
\* description are ranked too
FallbackActivities_Unfiltered(activities) ==
    LET sorted == SortPairsDesc([i \in 1..Len(activities) |->
                     <<activities[i].f.nsteps
                         + (IF activities[i].f.has_materials THEN 10 ELSE 0),
                       activities[i]>>])
        top    == Take([i \in 1..Len(activities) |-> sorted[i][2]], 3)
    IN  [i \in 1..Len(top) |->
            [top[i] EXCEPT !.has_score = TRUE, !.score = FALLBACK_SCORE]]

\* the fallback: the named and described activities, sorted by
\* len(steps) + (10 if materials), the first three, each scored 7.0
FallbackActivities(activities) ==
    LET keep  == [r \in {activities[i] : i \in 1..Len(activities)} |->
                      r.f.has_name /\ r.f.has_description]
        cands == SelectSeqBy(activities, keep)
        proxy(r) == r.f.nsteps + (IF r.f.has_materials THEN 10 ELSE 0)
        sorted == SortPairsDesc([i \in 1..Len(cands) |->
                                    <<proxy(cands[i]), cands[i]>>])
        top   == Take([i \in 1..Len(cands) |-> sorted[i][2]], 3)
    IN  [i \in 1..Len(top) |->
            [top[i] EXCEPT !.has_score = TRUE, !.score = FALLBACK_SCORE]]

filter_and_rank_activities(activities) ==
    LET keep   == [r \in {activities[i] : i \in 1..Len(activities)} |->
                       ActivityPasses(r)]
        kept   == SelectSeqBy(activities, keep)
        scored == [i \in 1..Len(kept) |->
                       [kept[i] EXCEPT
                           !.has_score = TRUE,
                           !.score = _calculate_activity_score(kept[i].f)]]
        fallback == FallbackCondition(scored, activities)
        filtered == IF fallback THEN scored \o FallbackActivities(activities)
                    ELSE scored
    IN  [fallback |-> fallback, passed |-> Len(scored),
         out |-> SortByScoreDesc(filtered)]

(***************************************************************************)
(* State                                                                   *)
(***************************************************************************)
VARIABLES
    variant,                 \* which generator runs
    pc,                      \* position of the run
    error,                   \* exception that ended the run, "" for none
    section,                 \* the caller's section record
    num_options,             \* hands-on generators: requested options
    queries,                 \* cached query list (priorities)
    queries_this_iteration,  \* indices of the queries searched
    iteration,
    previous_coverage,
    selected_videos,
    all_video_ids,
    videos,
    filtered_videos,
    used_video_ids,          \* CLI: ids accepted so far in the outline
    offered_ids,             \* ids offered to the filter so far in the run
    stop_reason,             \* which break left the loop (its log message)
    earlier_sections,        \* CLI: the video ids stored in the sections done
    genCalls,                \* GenerateQueries calls made
    searchCalls,             \* Search calls made
    classifyCalls,           \* LLM analysis calls made
    task_outcome,            \* hands-on: what each worker task will return
    task_seconds,            \* hands-on: how long each worker task runs
    pending,                 \* hands-on: tasks not yet collected
    all_resources,           \* all_worksheets / all_activities
    ranked,                  \* result of filter_and_rank_*
    fallback_used,           \* the activity fallback branch was taken
    passed_count,            \* resources that passed the filter
    probe                    \* single evaluations of the gates and scorers

handsVars == <<task_outcome, task_seconds, pending, all_resources, ranked, fallback_used,
               passed_count>>

videoVars == <<queries, queries_this_iteration, iteration, previous_coverage,
               selected_videos, all_video_ids, videos, filtered_videos,
               used_video_ids, offered_ids, stop_reason, earlier_sections,
               genCalls>>

\* the variables of a generator run
runVars == <<variant, pc, error, section, num_options, queries,
             queries_this_iteration, iteration, previous_coverage,
             selected_videos, all_video_ids, videos, filtered_videos,
             used_video_ids, offered_ids, stop_reason, earlier_sections,
             genCalls, searchCalls,
             classifyCalls, task_outcome, task_seconds, pending, all_resources,
             ranked, fallback_used,
             passed_count>>

vars == <<runVars, probe>>

\* no function is being probed
NoProbe == [fn |-> "none"]

Variants == {"backend", "cli", "worksheet", "activity"}

VideoVariants == {"backend", "cli"}

VideoIds == 1..MaxVideoIds

\* the section dict: the keys present and the values the engines write
EmptySection(keys) ==
    [keys |-> keys,
     search_queries_used |-> <<>>,
     video_resources |-> <<>>,
     coverage_percentage |-> 0,
     iterations_performed |-> 0,
     options |-> <<>>]

Init ==
    /\ variant \in Variants
    /\ pc = IF variant = "cli" THEN "plan" ELSE "start"
    /\ error = ""
    /\ section \in IF variant = "cli" THEN {EmptySection({"title"})}
                   ELSE {EmptySection({"title"}), EmptySection({})}
    /\ num_options \in IF variant \in VideoVariants THEN {0}
                       ELSE 0..MaxNumOptions
    /\ queries = <<>>
    /\ queries_this_iteration = <<>>
    /\ iteration = 0
    /\ previous_coverage = 0
    /\ selected_videos = <<>>
    /\ all_video_ids = {}
    /\ videos = <<>>
    /\ filtered_videos = <<>>
    /\ used_video_ids = {}
    /\ offered_ids = {}
    /\ stop_reason = ""
    /\ earlier_sections = <<>>
    /\ genCalls = 0
    /\ searchCalls = 0
    /\ classifyCalls = 0
    /\ task_outcome = <<>>
    /\ task_seconds = <<>>
    /\ pending = {}
    /\ all_resources = <<>>
    /\ ranked = <<>>
    /\ fallback_used = FALSE
    /\ passed_count = 0
    /\ probe = NoProbe

(***************************************************************************)
(* Video engines                                                           *)
(***************************************************************************)
\* faulty variant of _validate_section_input: the title is not required
_validate_section_input_NoTitleCheck(sec) == ""

\* _validate_section_input (the same in the three backend generators): the
\* exception it raises, "" for none
_validate_section_input(sec) ==
    IF "title" \notin sec.keys THEN "ValueError" ELSE ""

\* the first statement of the backend generators: validation
ValidateSectionInput ==
    /\ pc = "start"
    /\ IF _validate_section_input(section) = ""
       THEN /\ pc' = IF variant \in VideoVariants THEN "plan" ELSE "hsearch"
            /\ error' = error
       ELSE /\ pc' = "raised"
            /\ error' = _validate_section_input(section)
    /\ UNCHANGED handsVars
    /\ UNCHANGED <<probe, earlier_sections, offered_ids, stop_reason, variant, section, num_options, queries,
                   queries_this_iteration, iteration, previous_coverage,
                   selected_videos, all_video_ids, videos, filtered_videos,
                   used_video_ids, genCalls, searchCalls, classifyCalls>>

\* generate_queries_for_section, section['search_queries_used'] = ...,
\* and the initialisation of the loop variables
GenerateQueries ==
    /\ pc = "plan"
    /\ \E qs \in QueryLists :
          /\ queries' = qs
          /\ section' = [section EXCEPT
                           !.keys = @ \cup {"search_queries_used"},
                           !.search_queries_used = qs]
    /\ genCalls' = genCalls + 1
    /\ selected_videos' = <<>>
    /\ iteration' = 0
    /\ previous_coverage' = 0
    /\ offered_ids' = {}
    /\ stop_reason' = ""
    /\ pc' = "loop"
    /\ UNCHANGED handsVars
    /\ UNCHANGED <<probe, earlier_sections, variant, error, num_options, queries_this_iteration,
                   all_video_ids, videos, filtered_videos, used_video_ids,
                   searchCalls, classifyCalls>>

\* faulty variant of LoopCondition: the loop stops on the iteration budget
\* only
LoopCondition_BudgetOnly == iteration < MAX_SEARCH_ITERATIONS

\* the condition of the while loop
LoopCondition ==
    IF variant = "backend"
    THEN iteration < MAX_SEARCH_ITERATIONS /\ selected_videos = <<>>
    ELSE iteration < MAX_SEARCH_ITERATIONS
         /\ Len(selected_videos) < YOUTUBE_MAX_VIDEOS_PER_SECTION

\* loop entry: iteration += 1 and the choice of this iteration's queries
StartIteration ==
    /\ pc = "loop"
    /\ LoopCondition
    /\ iteration' = iteration + 1
    /\ queries_this_iteration' =
          IF variant = "backend" THEN QuerySubset(queries, iteration + 1)
          ELSE [i \in 1..Len(queries) |-> i]
    /\ pc' = "search"
    /\ UNCHANGED handsVars
    /\ UNCHANGED <<probe, earlier_sections, offered_ids, stop_reason, variant, error, section,
                   num_options, queries,
                   previous_coverage, selected_videos, all_video_ids, videos,
                   filtered_videos, used_video_ids, genCalls, searchCalls,
                   classifyCalls>>

\* the loop condition is false: fall through to storing the results
ExitLoop ==
    /\ pc = "loop"
    /\ ~LoopCondition
    /\ pc' = "store"
    /\ stop_reason' = "loop condition"
    /\ UNCHANGED handsVars
    /\ UNCHANGED <<probe, earlier_sections, offered_ids, variant, error, section,
                   num_options, queries,
                   queries_this_iteration, iteration, previous_coverage,
                   selected_videos, all_video_ids, videos, filtered_videos,
                   used_video_ids, genCalls, searchCalls, classifyCalls>>

\* Video ids are opaque names: the k ids of a search result that were never
\* offered to the filter before (nor, in the CLI, accepted for an earlier
\* section) are named by the k smallest unused numbers.
FreshIds(k) ==
    LET unused == VideoIds \ (offered_ids \cup used_video_ids)
    IN  {x \in unused : Cardinality({y \in unused : y < x}) < k}

\* what the searches of one iteration can find together: ids offered or
\* accepted before and new ones, at most MaxFound
SearchResults ==
    {old \cup FreshIds(k) :
        old \in SUBSET (offered_ids \cup used_video_ids),
        k \in 0..Min(MaxFound,
                     Cardinality(VideoIds
                                    \ (offered_ids \cup used_video_ids)))}

\* faulty variant of NewVideoIds: the used ids stay in
NewVideoIds_KeepUsed(found, used) == found

\* CLI: all_video_ids = [vid for vid in all_video_ids
\*                       if vid not in used_video_ids]
NewVideoIds(found, used) == found \ used

\* faulty variant of AfterSearch: an empty search result goes on to the
\* details fetch
AfterSearch_NoBreak(ids) == "analyze"

\* "if not all_video_ids: ... break": with no candidate id the loop is left
\* and the results are stored, otherwise the details are fetched
AfterSearch(ids) == IF ids = {} THEN "store" ELSE "analyze"

\* search_videos once per query, list(set(...)), and (CLI) the removal of
\* already used ids; no ids ends the loop
SearchVideos ==
    /\ pc = "search"
    /\ \E found \in {f \in SearchResults : Cardinality(f) <= MaxFound} :
          LET ids == IF variant = "cli"
                     THEN NewVideoIds(found, used_video_ids)
                     ELSE found
          IN  /\ all_video_ids' = ids
              /\ pc' = AfterSearch(ids)
              /\ stop_reason' = IF ids = {} THEN "no videos found"
                                 ELSE stop_reason
    /\ searchCalls' = searchCalls + Len(queries_this_iteration)
    /\ UNCHANGED handsVars
    /\ UNCHANGED <<probe, earlier_sections, offered_ids, variant, error, section,
                   num_options, queries,
                   queries_this_iteration, iteration, previous_coverage,
                   selected_videos, videos, filtered_videos, used_video_ids,
                   genCalls, classifyCalls>>

\* the ids of a set as a list; which order list(set(...)) and the API
\* produce is immaterial here, because every assignment of fixtures to the
\* positions of the list is explored
RECURSIVE IdList(_)
IdList(ids) ==
    IF ids = {} THEN <<>>
    ELSE LET m == CHOOSE x \in ids : \A y \in ids : x <= y
         IN  <<m>> \o IdList(ids \ {m})

\* the record the engines keep for one video
VideoRecord(id, fixture, redundancy) ==
    [id |-> id,
     has_id |-> fixture.has_id,
     cov |-> fixture.cov,
     log10_views |-> fixture.log10_views,
     likes_permille |-> fixture.likes_permille,
     duration_seconds |-> fixture.duration_seconds,
     recency_points |-> fixture.recency_points,
     channel_score_x2 |-> fixture.channel_score_x2,
     blacklisted |-> fixture.blacklisted,
     wpm |-> fixture.wpm,
     topics |-> fixture.topics,
     red |-> redundancy.red,
     is_redundant |-> redundancy.is_redundant,
     unique_new_content |-> redundancy.unique_new_content,
     overlapping_topics |-> redundancy.overlapping_topics,
     redundancy_calls |-> redundancy.calls,
     score |-> 0,
     accepted_in |-> 0]

\* what the LLM would answer to detect_redundancy in this iteration; while
\* nothing is accepted detect_redundancy does not read the answer, and one
\* representative answer is enough
LlmRedundancyAnswers ==
    IF selected_videos = <<>>
    THEN {CHOOSE r \in RedundancyValues : \A q \in RedundancyValues : q <= r}
    ELSE RedundancyValues

\* the ids get_video_details can return details for: any of the ids found.
\* An id without details leaves no trace, so of the ids never offered
\* before, the ones without details are taken to be the highest numbers.
DetailsReturned ==
    LET fresh == all_video_ids \ offered_ids
    IN  {r \in SUBSET all_video_ids :
            \A x \in r \cap fresh : \A y \in fresh : y < x => y \in r}

\* get_video_details (which may return fewer videos than ids, or none) and
\* the analysis loop: analyze_video_content, calculate_content_coverage and
\* detect_redundancy for every video.  The backend stops when no details
\* came back.
AnalyzeVideos ==
    /\ pc = "analyze"
    /\ \E returned \in DetailsReturned :
       \E fx \in [returned -> VideoFixtures] :
       \E rd \in [returned -> LlmRedundancyAnswers] :
          LET ids == IdList(returned)
          IN  /\ videos' = [i \in 1..Len(ids) |->
                               VideoRecord(ids[i], fx[ids[i]],
                                   detect_redundancy(fx[ids[i]].topics,
                                                     selected_videos,
                                                     rd[ids[i]]))]
              /\ classifyCalls' = classifyCalls
                    + Len(ids) * ClassifyCallsPerVideo(selected_videos)
              /\ pc' = IF variant = "backend" /\ returned = {}
                       THEN "store" ELSE "filter"
              /\ stop_reason' = IF variant = "backend" /\ returned = {}
                                 THEN "no video details"
                                 ELSE stop_reason
    /\ all_video_ids' = {}
    /\ UNCHANGED handsVars
    /\ UNCHANGED <<probe, earlier_sections, offered_ids, variant, error, section,
                   num_options, queries,
                   queries_this_iteration, iteration, previous_coverage,
                   selected_videos, filtered_videos, used_video_ids,
                   genCalls, searchCalls>>

\* filter_and_rank_videos and the branch on an empty result
FilterAndRank ==
    /\ pc = "filter"
    /\ IF variant = "backend"
       THEN LET r == BackendFilterAndRank(videos)
            IN  IF r.raised
                THEN /\ pc' = "raised"
                     /\ error' = "AttributeError"
                     /\ filtered_videos' = <<>>
                ELSE /\ filtered_videos' = r.out
                     /\ error' = error
                     /\ pc' = IF r.out # <<>> THEN "select"
                              ELSE IF iteration >= MAX_SEARCH_ITERATIONS
                                   THEN "store"
                                   ELSE "loop"
       ELSE LET out == CliFilterAndRank(videos)
            IN  /\ filtered_videos' = out
                /\ error' = error
                /\ pc' = IF out # <<>> THEN "select" ELSE "store"
    /\ videos' = <<>>
    /\ stop_reason' = IF pc' = "store" THEN "no videos passed"
                       ELSE stop_reason
    /\ offered_ids' = offered_ids \cup {videos[i].id : i \in 1..Len(videos)}
    /\ UNCHANGED handsVars
    /\ UNCHANGED <<probe, earlier_sections, variant, section, num_options, queries,
                   queries_this_iteration, iteration, previous_coverage,
                   selected_videos, all_video_ids, used_video_ids, genCalls,
                   searchCalls, classifyCalls>>

\* the videos appended to selected_videos in this iteration
NewSelections ==
    LET remaining_slots ==
            YOUTUBE_MAX_VIDEOS_PER_SECTION - Len(selected_videos)
        top == select_top_videos(filtered_videos, remaining_slots)
    IN  [i \in 1..Len(top) |-> [top[i] EXCEPT !.accepted_in = iteration]]

\* faulty variant of Converged: the improvement is never found too small
Converged_Never(improvement) == FALSE

\* the convergence check: improvement < CONVERGENCE_THRESHOLD
Converged(improvement) == improvement < CONVERGENCE_THRESHOLD

\* selection of the top videos, the section coverage and the convergence
\* check
SelectAndDecide ==
    /\ pc = "select"
    /\ LET remaining_slots ==
               YOUTUBE_MAX_VIDEOS_PER_SECTION - Len(selected_videos)
           selected == selected_videos \o NewSelections
           current_coverage == _calculate_section_coverage(selected)
           improvement == current_coverage - previous_coverage
       IN  IF variant = "backend" /\ remaining_slots <= 0
           THEN /\ pc' = "store"
                /\ UNCHANGED <<selected_videos, used_video_ids,
                               previous_coverage>>
           ELSE /\ selected_videos' = selected
                /\ used_video_ids' =
                      IF variant = "cli"
                      THEN used_video_ids
                           \cup {NewSelections[i].id :
                                    i \in 1..Len(NewSelections)}
                      ELSE used_video_ids
                /\ IF variant = "backend"
                      /\ Len(selected) >= YOUTUBE_MAX_VIDEOS_PER_SECTION
                   THEN /\ pc' = "store"
                        /\ previous_coverage' = previous_coverage
                   ELSE IF Converged(improvement)
                             /\ (variant = "cli" \/ selected # <<>>)
                        THEN /\ pc' = "store"
                             /\ previous_coverage' = previous_coverage
                        ELSE /\ pc' = "loop"
                             /\ previous_coverage' =
                                   IF variant = "cli" \/ selected # <<>>
                                   THEN current_coverage
                                   ELSE previous_coverage
    /\ filtered_videos' = <<>>
    /\ stop_reason' = IF pc' = "store" THEN "after selection"
                       ELSE stop_reason
    /\ UNCHANGED handsVars
    /\ UNCHANGED <<probe, earlier_sections, offered_ids, variant, error, section,
                   num_options, queries,
                   queries_this_iteration, iteration, all_video_ids, videos,
                   genCalls, searchCalls, classifyCalls>>

\* section['video_resources'] and section['content_coverage_status']
StoreResults ==
    /\ pc = "store"
    /\ section' = [section EXCEPT
                     !.keys = @ \cup {"video_resources",
                                      "content_coverage_status"},
                     !.video_resources = selected_videos,
                     !.coverage_percentage =
                         _calculate_section_coverage(selected_videos),
                     !.iterations_performed = iteration]
    /\ pc' = "done"
    /\ UNCHANGED handsVars
    /\ UNCHANGED <<probe, earlier_sections, offered_ids, stop_reason, variant, error,
                   num_options, queries,
                   queries_this_iteration, iteration, previous_coverage,
                   selected_videos, all_video_ids, videos, filtered_videos,
                   used_video_ids, genCalls, searchCalls, classifyCalls>>

\* CurriculumOrchestrator: the except clause around the generator call logs
\* the exception and goes on; the section object stays as the generator
\* left it
OrchestratorCatch ==
    /\ pc = "raised"
    /\ pc' = "caught"
    /\ UNCHANGED handsVars
    /\ UNCHANGED <<probe, earlier_sections, offered_ids, stop_reason, variant, error, section,
                   num_options, queries,
                   queries_this_iteration, iteration, previous_coverage,
                   selected_videos, all_video_ids, videos, filtered_videos,
                   used_video_ids, genCalls, searchCalls, classifyCalls>>

(***************************************************************************)
(* Worksheet and activity generators                                       *)
(***************************************************************************)
OptionsKey == IF variant = "worksheet" THEN "worksheet_options"
              ELSE "activity_options"

Outcomes == IF variant = "worksheet" THEN WorksheetOutcomes
            ELSE ActivityOutcomes

\* how long a worker task can run, in seconds: a moment, or longer than the
\* timeout given to future.result
PromptTaskSeconds == 1

TaskDurations == {PromptTaskSeconds, TIMEOUT_SECONDS + 1}

\* section['worksheet_options'] = ... / section['activity_options'] = ...
WithOptions(opts) ==
    [section EXCEPT !.keys = @ \cup {OptionsKey}, !.options = opts]

\* search_worksheets / search_activities; no results stores an empty list,
\* otherwise one worker task per result is submitted to the pool
SearchResourcesWith(durations) ==
    /\ pc = "hsearch"
    /\ searchCalls' = searchCalls + 1
    /\ \E n \in 0..MaxSearchResults :
       \E outcome \in [1..n -> Outcomes] :
       \E seconds \in [1..n -> durations] :
          IF n = 0
          THEN /\ section' = WithOptions(<<>>)
               /\ pc' = "done"
               /\ UNCHANGED <<task_outcome, task_seconds, pending>>
          ELSE /\ task_outcome' = outcome
               /\ task_seconds' = seconds
               /\ pending' = 1..n
               /\ pc' = "fanout"
               /\ section' = section
    /\ UNCHANGED videoVars
    /\ UNCHANGED <<probe, earlier_sections, variant, error, num_options, classifyCalls, all_resources,
                   ranked, fallback_used, passed_count>>

\* a run whose worker tasks all finish well within TIMEOUT_SECONDS
SearchResources == SearchResourcesWith({PromptTaskSeconds})

\* a run whose worker tasks may take longer than TIMEOUT_SECONDS
SearchResourcesTimed == SearchResourcesWith(TaskDurations)

\* how long future.result(timeout=TIMEOUT_SECONDS) waits for task t:
\* as_completed yields a future only once it is finished, however long the
\* task ran, so the call returns at once
ResultWait(t) == 0

\* one turn of the as_completed loop: the next finished task's result is
\* appended to the pool (nothing when it returned None or raised, or when
\* future.result timed out)
CollectResult ==
    /\ pc = "fanout"
    /\ \E t \in pending :
          /\ pending' = pending \ {t}
          /\ all_resources' =
                IF ResultWait(t) > TIMEOUT_SECONDS THEN all_resources
                ELSE all_resources \o
                        [i \in 1..Len(task_outcome[t]) |->
                            ResourceRecord(task_outcome[t][i], t, i)]
    /\ classifyCalls' = classifyCalls + 1
    /\ UNCHANGED videoVars
    /\ UNCHANGED <<probe, earlier_sections, variant, pc, error, section, num_options, searchCalls,
                   task_outcome, task_seconds, ranked, fallback_used,
                   passed_count>>

\* after the pool is drained: an empty pool stores an empty list
AfterFanout ==
    /\ pc = "fanout"
    /\ pending = {}
    /\ IF all_resources = <<>>
       THEN /\ section' = WithOptions(<<>>)
            /\ pc' = "done"
       ELSE /\ section' = section
            /\ pc' = "hfilter"
    /\ UNCHANGED videoVars
    /\ UNCHANGED handsVars
    /\ UNCHANGED <<probe, earlier_sections, variant, error, num_options, searchCalls, classifyCalls>>

\* resource_filter.filter_and_rank_worksheets / filter_and_rank_activities
FilterAndRankResources ==
    /\ pc = "hfilter"
    /\ IF variant = "worksheet"
       THEN /\ ranked' = filter_and_rank_worksheets(all_resources)
            /\ fallback_used' = FALSE
            /\ passed_count' = Len(filter_and_rank_worksheets(all_resources))
            /\ classifyCalls' = classifyCalls
                  + RelevanceCalls(all_resources)
       ELSE /\ ranked' = filter_and_rank_activities(all_resources).out
            /\ fallback_used' =
                  filter_and_rank_activities(all_resources).fallback
            /\ passed_count' = filter_and_rank_activities(all_resources).passed
            /\ classifyCalls' = classifyCalls
                  + RelevanceCalls(all_resources)
    /\ pc' = "hselect"
    /\ UNCHANGED videoVars
    /\ UNCHANGED <<probe, earlier_sections, variant, error, section, num_options, searchCalls,
                   task_outcome, task_seconds, pending, all_resources>>

\* ranked[:num_options] stored in the section
SelectTopOptions ==
    /\ pc = "hselect"
    /\ section' = WithOptions(Take(ranked, num_options))
    /\ pc' = "done"
    /\ UNCHANGED videoVars
    /\ UNCHANGED handsVars
    /\ UNCHANGED <<probe, earlier_sections, variant, error, num_options, searchCalls, classifyCalls>>

Next ==
    \/ ValidateSectionInput
    \/ GenerateQueries
    \/ StartIteration
    \/ ExitLoop
    \/ SearchVideos
    \/ AnalyzeVideos
    \/ FilterAndRank
    \/ SelectAndDecide
    \/ StoreResults
    \/ OrchestratorCatch
    \/ SearchResources
    \/ CollectResult
    \/ AfterFanout
    \/ FilterAndRankResources
    \/ SelectTopOptions

Spec == Init /\ [][Next]_vars

(***************************************************************************)
(* Worksheet and activity runs with slow worker tasks                      *)
(***************************************************************************)
FanoutInit ==
    /\ Init
    /\ variant \in {"worksheet", "activity"}

FanoutNext ==
    \/ ValidateSectionInput
    \/ SearchResourcesTimed
    \/ CollectResult
    \/ AfterFanout
    \/ FilterAndRankResources
    \/ SelectTopOptions

FanoutSpec == FanoutInit /\ [][FanoutNext]_vars

(***************************************************************************)
(* Probes                                                                  *)
(*                                                                         *)
(* The filter gates and the scorers applied to one video record, outside a *)
(* run: the record is drawn from boundary values, the gates are evaluated  *)
(* once, the scorers up to MaxEvaluations times while the clock advances   *)
(* by whole days.                                                          *)
(***************************************************************************)
\* days the clock may advance during the evaluations
MaxClockDays == 2

\* evaluations of the scorers on one record
MaxEvaluations == 3

\* what get_video_details and the analysis can deliver, at the boundaries of
\* the gates
ProbeFixtures ==
    [has_id : {TRUE}, cov : {10, 59, 60},
     log10_views : {1, 2, 4}, likes_permille : {8},
     duration_seconds : {0, 119, 120, 121, 1200, 1799, 1800, 1801},
     recency_points : {0}, channel_score_x2 : {1}, blacklisted : {FALSE},
     wpm : {-1}, topics : {<<"topic1">>}]

\* redundancy_percentage answers of the LLM around the two ceilings
ProbeRedundancyValues == {20, 60, 61, 80, 81}

\* published_at ("none": absent, "unparsable": not an ISO date) and the age
\* in days at the first evaluation, around the ends of the recency brackets
ProbePublished ==
    {[published_at |-> "none", age_days |-> 0],
     [published_at |-> "unparsable", age_days |-> 0]}
    \cup [published_at : {"ok"},
          age_days : {364, 365, 2 * 365, 3 * 365 - 1, 5 * 365, 4000}]

\* the records a probe starts from
ProbeInputs ==
    {[fn |-> "video",
      video |-> VideoRecord(1, f, detect_redundancy(f.topics, existing, r)),
      published_at |-> p.published_at,
      age_days |-> p.age_days,
      elapsed_days |-> 0,
      gates |-> <<>>,
      evaluations |-> <<>>] :
        f \in ProbeFixtures, existing \in {<<>>, <<"accepted">>},
        r \in ProbeRedundancyValues, p \in ProbePublished}

\* videos at the ends of the ranges of the scorers' inputs (log10_views -1:
\* no views)
ScoreVideoFixtures ==
    [has_id : {TRUE}, cov : {0, 100},
     log10_views : {-1, 0, 7, 9}, likes_permille : {0, 20, 200},
     duration_seconds : {120, 720, 1800},
     recency_points : {0, 2, 20}, channel_score_x2 : {0, 1, 8},
     blacklisted : {FALSE}, wpm : {-1, 115, 200}, topics : {<<"topic1">>}]

\* worksheets and activities at the ends of the ranges of the scorers' inputs
ScoreWorksheetFixtures ==
    [is_age_appropriate : {TRUE}, visual_quality : {0, 10},
     educational_value : {0, 10}, has_topics : {TRUE},
     has_images_or_art : BOOLEAN, rel_ok : {TRUE}, is_suitable : {TRUE},
     rel_cov : {0, 100}, rel_quality : {0, 10}, matches_grade : BOOLEAN,
     matches_topic : BOOLEAN]

ScoreActivityFixtures ==
    [has_name : {TRUE}, has_description : {TRUE}, nsteps : {0, 5},
     has_materials : BOOLEAN, has_duration : BOOLEAN,
     has_objectives : BOOLEAN, rel_ok : {TRUE}, is_suitable : {TRUE},
     rel_cov : {0, 100}, rel_quality : {0, 10}]

\* the records a probe of the scorers starts from
ScoreInputs ==
    {[fn |-> "video_score",
      subject |-> VideoRecord(1, f,
                      detect_redundancy(f.topics, <<"accepted">>, r)),
      scores |-> <<>>] : f \in ScoreVideoFixtures, r \in {0, 100}}
    \cup {[fn |-> "worksheet_score", subject |-> w, scores |-> <<>>] :
              w \in ScoreWorksheetFixtures}
    \cup {[fn |-> "activity_score", subject |-> a, scores |-> <<>>] :
              a \in ScoreActivityFixtures}

\* the channel names probed: every key of the three tables as it is written
\* there, and the names of the docstring examples
ChannelNames ==
    TableKeys(TIER_1_CHANNELS) \cup TableKeys(TIER_2_CHANNELS)
        \cup BLACKLIST_CHANNELS \cup DocstringChannels

\* grade levels: 0 (Kindergarten) to 12
GradeLevels == 0..12

\* the records a probe of the channel database starts from
ChannelInputs ==
    [fn : {"channel"}, channel_name : ChannelNames,
     grade_level : GradeLevels, answer : {<<>>}]

\* ---- backend/utils/llm_handler.py, content_analyzer.py: failures --------

\* what the chat-completion request of call_openai can come to: an exception
\* of the API, a reply that is not JSON, JSON that is not an object, or an
\* object whose percentage is value (an object without the key reads as 0)
LlmReplies ==
    {[kind |-> k, value |-> 0] :
         k \in {"api_error", "invalid_json", "json_list"}}
    \cup {[kind |-> "object", value |-> v] : v \in {0, 35, 90}}

\* call_openai: the API's exception and the JSONDecodeError of json.loads
\* are logged and raised again, everything json.loads accepts is returned
call_openai(reply) ==
    [raised |-> reply.kind \in {"api_error", "invalid_json"},
     parsed |-> reply]

\* coverage.get(...) / redundancy.get(...) inside the try block raises
\* AttributeError on a value that is not a dict
GetRaises(parsed) == parsed.kind # "object"

\* calculate_content_coverage: the LLM's dict, or the fallback dict with
\* coverage 50 when anything inside the try block raises
calculate_content_coverage(reply) ==
    LET coverage == call_openai(reply)
    IN  IF coverage.raised \/ GetRaises(coverage.parsed)
        THEN [raised |-> FALSE, coverage_percentage |-> 50,
              assessment |-> "Unable to assess - API error"]
        ELSE [raised |-> FALSE,
              coverage_percentage |-> coverage.parsed.value,
              assessment |-> "llm"]

\* faulty variant of detect_redundancy_call: no except clause around the
\* LLM call
detect_redundancy_call_Unguarded(new_video_topics, existing_videos_data, reply) ==
    LET redundancy == call_openai(reply)
        answer == detect_redundancy(new_video_topics, existing_videos_data,
                                    redundancy.parsed.value)
    IN  [raised |-> existing_videos_data # <<>>
                      /\ (redundancy.raised \/ GetRaises(redundancy.parsed)),
         redundancy_percentage |-> answer.red,
         unique_new_content |-> answer.unique_new_content,
         overlapping_topics |-> answer.overlapping_topics]

\* detect_redundancy with the LLM call spelled out: the base case without a
\* call, the LLM's dict, or the default (20, every topic unique, nothing
\* overlapping) when anything inside the try block raises
detect_redundancy_call(new_video_topics, existing_videos_data, reply) ==
    LET redundancy == call_openai(reply)
        answer == detect_redundancy(new_video_topics, existing_videos_data,
                                    redundancy.parsed.value)
    IN  IF existing_videos_data # <<>>
           /\ (redundancy.raised \/ GetRaises(redundancy.parsed))
        THEN [raised |-> FALSE,
              redundancy_percentage |-> 20,
              unique_new_content |-> new_video_topics,
              overlapping_topics |-> <<>>]
        ELSE [raised |-> FALSE,
              redundancy_percentage |-> answer.red,
              unique_new_content |-> answer.unique_new_content,
              overlapping_topics |-> answer.overlapping_topics]

\* the analysis loop of generate_videos_for_section over the videos of one
\* iteration (topics_covered of each): content_coverage and
\* redundancy_analysis are set on every video in turn; an exception leaves
\* the loop and the generator at the video that raised it
AnalysisLoop(topics_covered, existing_videos_data, replies) ==
    LET n == Len(topics_covered)
        analysed(i) ==
            [topics_covered |-> topics_covered[i],
             content_coverage |->
                 calculate_content_coverage(replies[i].coverage),
             redundancy_analysis |->
                 detect_redundancy_call(topics_covered[i],
                                        existing_videos_data,
                                        replies[i].redundancy)]
        raises(i) == \/ analysed(i).content_coverage.raised
                     \/ analysed(i).redundancy_analysis.raised
        stop == IF \E i \in 1..n : raises(i)
                THEN CHOOSE i \in 1..n :
                         raises(i) /\ \A j \in 1..(i - 1) : ~raises(j)
                ELSE n + 1
    IN  [raised |-> stop <= n,
         videos |-> [i \in 1..(stop - 1) |-> analysed(i)]]

\* the videos of the probed iteration, by their topics
AnalysisCandidates == << <<"topic1", "topic2">>, <<"topic3">> >>

\* the analysis loop probed: nothing or one video accepted before, and a
\* reply to each of the two classification calls of each video
AnalysisInputs ==
    [fn : {"analysis"},
     existing_videos_data : {<<>>, <<"accepted">>},
     replies : [1..Len(AnalysisCandidates) ->
                   [coverage : LlmReplies, redundancy : LlmReplies]],
     result : {<<>>}]

\* the probed video as the backend scorer sees it at the current date
ProbeVideoNow ==
    [probe.video EXCEPT
        !.recency_points = RecencyPoints(probe.published_at,
                                         probe.age_days + probe.elapsed_days)]

ProbeInit ==
    /\ probe \in ProbeInputs \cup ScoreInputs \cup ChannelInputs
                 \cup AnalysisInputs
    /\ variant = "backend"
    /\ pc = "probe"
    /\ error = ""
    /\ section = EmptySection({"title"})
    /\ num_options = 0
    /\ queries = <<>>
    /\ queries_this_iteration = <<>>
    /\ iteration = 0
    /\ previous_coverage = 0
    /\ selected_videos = <<>>
    /\ all_video_ids = {}
    /\ videos = <<>>
    /\ filtered_videos = <<>>
    /\ used_video_ids = {}
    /\ offered_ids = {}
    /\ stop_reason = ""
    /\ earlier_sections = <<>>
    /\ genCalls = 0
    /\ searchCalls = 0
    /\ classifyCalls = 0
    /\ task_outcome = <<>>
    /\ task_seconds = <<>>
    /\ pending = {}
    /\ all_resources = <<>>
    /\ ranked = <<>>
    /\ fallback_used = FALSE
    /\ passed_count = 0

\* the gates of the two filters on the probed video
ProbeGates ==
    /\ probe.fn = "video"
    /\ probe.gates = <<>>
    /\ probe' = [probe EXCEPT !.gates =
          <<[duration  |-> _passes_duration_filter(probe.video),
             quality   |-> _passes_quality_filter(probe.video),
             redundant |-> BackendRedundancyRejects(probe.video),
             step      |-> BackendFilterStep(probe.video),
             cli       |-> passes_filters(probe.video)]>>]
    /\ UNCHANGED runVars

\* one evaluation of the two scorers at the current date
ProbeScore ==
    /\ probe.fn = "video"
    /\ Len(probe.evaluations) < MaxEvaluations
    /\ probe' = [probe EXCEPT !.evaluations = Append(@,
          [elapsed_days  |-> probe.elapsed_days,
           ranking_score |-> _calculate_ranking_score(ProbeVideoNow),
           relevance_score |->
               Round2(calculate_relevance_score(ProbeVideoNow))])]
    /\ UNCHANGED runVars

\* one evaluation of the scorers of the probed kind of resource: the
\* backend ranking score (1/140 point) and the CLI relevance score (1/100
\* point) of a video, the overall score of a worksheet (1/10 point) or of
\* an activity (1/400 point)
ProbeScale ==
    /\ probe.fn \in {"video_score", "worksheet_score", "activity_score"}
    /\ probe.scores = <<>>
    /\ probe' = [probe EXCEPT !.scores =
          IF probe.fn = "video_score"
          THEN <<_calculate_ranking_score(probe.subject),
                 Round2(calculate_relevance_score(probe.subject))>>
          ELSE IF probe.fn = "worksheet_score"
          THEN <<_calculate_worksheet_score(probe.subject)>>
          ELSE <<_calculate_activity_score(probe.subject)>>]
    /\ UNCHANGED runVars

\* get_channel_tier and calculate_channel_demographic_score on the probed
\* name and grade
ProbeChannel ==
    /\ probe.fn = "channel"
    /\ probe.answer = <<>>
    /\ probe' = [probe EXCEPT !.answer =
          <<[tier |-> get_channel_tier(probe.channel_name),
             score_x2 |-> calculate_channel_demographic_score_x2(
                              probe.channel_name, probe.grade_level)]>>]
    /\ UNCHANGED runVars

\* midnight passes
ProbeTick ==
    /\ probe.fn = "video"
    /\ probe.elapsed_days < MaxClockDays
    /\ probe' = [probe EXCEPT !.elapsed_days = @ + 1]
    /\ UNCHANGED runVars

\* the analysis loop on the probed iteration
ProbeAnalysis ==
    /\ probe.fn = "analysis"
    /\ probe.result = <<>>
    /\ probe' = [probe EXCEPT !.result =
          <<AnalysisLoop(AnalysisCandidates, probe.existing_videos_data,
                         probe.replies)>>]
    /\ UNCHANGED runVars

ProbeNext ==
    \/ ProbeGates
    \/ ProbeScore
    \/ ProbeScale
    \/ ProbeChannel
    \/ ProbeAnalysis
    \/ ProbeTick

ProbeSpec == ProbeInit /\ [][ProbeNext]_vars

(***************************************************************************)
(* The CLI populator over the sections of one outline                      *)
(***************************************************************************)
\* faulty variant of UsedAtNextSection: the set starts empty for every
\* section
UsedAtNextSection_Emptied(used) == {}

\* used_video_ids = set() is created once, before "for section in
\* sections": the next section starts with the ids used so far
UsedAtNextSection(used) == used

\* the video ids of a stored list
StoredIds(video_resources) ==
    {video_resources[i].id : i \in 1..Len(video_resources)}

\* "for section in sections": the section is stored, the next one is taken.
\* queries, selected_videos, iteration and previous_coverage are assigned
\* anew before they are read; the call counts are those of a section's run.
NextSection ==
    /\ variant = "cli"
    /\ pc = "done"
    /\ Len(earlier_sections) + 1 < MaxSections
    /\ earlier_sections' =
          Append(earlier_sections, StoredIds(section.video_resources))
    /\ used_video_ids' = UsedAtNextSection(used_video_ids)
    /\ section' = EmptySection({"title"})
    /\ pc' = "plan"
    /\ queries' = <<>>
    /\ queries_this_iteration' = <<>>
    /\ iteration' = 0
    /\ previous_coverage' = 0
    /\ selected_videos' = <<>>
    /\ offered_ids' = {}
    /\ stop_reason' = ""
    /\ genCalls' = 0
    /\ searchCalls' = 0
    /\ classifyCalls' = 0
    /\ UNCHANGED handsVars
    /\ UNCHANGED <<probe, variant, error, num_options, all_video_ids, videos,
                   filtered_videos>>

OutlineInit == Init /\ variant = "cli"

OutlineNext ==
    \/ GenerateQueries
    \/ StartIteration
    \/ ExitLoop
    \/ SearchVideos
    \/ AnalyzeVideos
    \/ FilterAndRank
    \/ SelectAndDecide
    \/ StoreResults
    \/ NextSection

OutlineSpec == OutlineInit /\ [][OutlineNext]_vars

(***************************************************************************)
(* Properties                                                              *)
(***************************************************************************)
VideoRun == variant \in VideoVariants

HandsOnRun == variant \in {"worksheet", "activity"}

C2_Original ==
    (VideoRun /\ pc = "done") =>
        \A i, j \in 1..Len(section.video_resources) :
            i < j => section.video_resources[i].score
                        >= section.video_resources[j].score

\* C2 (amended): at the return of a video run the scores are non-increasing
\* by acceptance index among the candidates accepted in the same iteration.
C2_MonotonicWithinIteration ==
    (VideoRun /\ pc = "done") =>
        \A i, j \in 1..Len(section.video_resources) :
            (i < j /\ section.video_resources[i].accepted_in
                         = section.video_resources[j].accepted_in)
               => section.video_resources[i].score
                     >= section.video_resources[j].score

\* a returned list with two candidates of one iteration in strictly
\* descending order and a candidate of another iteration
C2_Witness ==
    /\ VideoRun
    /\ pc = "done"
    /\ \E i, j \in 1..Len(section.video_resources) :
          /\ i < j
          /\ section.video_resources[i].accepted_in
                = section.video_resources[j].accepted_in
          /\ section.video_resources[i].score
                > section.video_resources[j].score
    /\ \E i, j \in 1..Len(section.video_resources) :
          section.video_resources[i].accepted_in
             # section.video_resources[j].accepted_in

\* sum of the accepted candidates' coverage percentages
CoverageSum(accepted) ==
    SumSeq([i \in 1..Len(accepted) |-> accepted[i].cov])

\* C3 (as claimed): coverage aggregate.  The stored coverage_percentage is
\* the arithmetic mean of the accepted candidates' coverage percentages,
\* whole or not, and 0 for an empty list.
C3_Original ==
    (VideoRun /\ pc = "done") =>
        IF section.video_resources = <<>>
        THEN section.coverage_percentage = 0
        ELSE section.coverage_percentage * Len(section.video_resources)
                = CoverageSum(section.video_resources)

\* C3 (amended): the stored coverage_percentage is the arithmetic mean
\* truncated to a whole number (the largest integer not above the mean),
\* and 0 for an empty list.
C3_TruncatedMean ==
    (VideoRun /\ pc = "done") =>
        IF section.video_resources = <<>>
        THEN section.coverage_percentage = 0
        ELSE LET n == Len(section.video_resources)
                 total == CoverageSum(section.video_resources)
             IN  /\ section.coverage_percentage * n <= total
                 /\ total < (section.coverage_percentage + 1) * n

\* a returned list whose mean coverage is not a whole number
C3_Witness ==
    /\ VideoRun
    /\ pc = "done"
    /\ section.video_resources # <<>>
    /\ section.coverage_percentage * Len(section.video_resources)
          # CoverageSum(section.video_resources)

\* C4: the fallback of filter_and_rank_activities is taken if and only if
\* no activity of the pool passed the filter and the pool is not empty.
C4_FallbackOnlyOnStarvation ==
    (variant = "activity" /\ pc \in {"hselect", "done"}) =>
        (fallback_used <=>
            /\ \A i \in 1..Len(all_resources) :
                  ~ActivityPasses(all_resources[i])
            /\ Len(all_resources) > 0)

\* an activity run that took the fallback and returned its results
C4_Witness ==
    /\ variant = "activity"
    /\ pc = "done"
    /\ fallback_used
    /\ section.options # <<>>
    /\ \A i \in 1..Len(section.options) :
          section.options[i].score = FALLBACK_SCORE

\* every analysed worksheet failed the quality gate, the pool has at least
\* three of them, and the run has returned
WorksheetStarvation ==
    /\ variant = "worksheet"
    /\ pc = "done"
    /\ Len(all_resources) >= 3
    /\ \A i \in 1..Len(all_resources) :
          ~_is_quality_worksheet(all_resources[i].f)

C6_Original ==
    [][(variant = "backend" /\ pc = "filter" /\ videos # <<>>
          /\ iteration < MAX_SEARCH_ITERATIONS /\ pc' # "select")
       => (pc' = "loop" /\ LoopCondition')]_vars

\* C7: once an iteration has brought the accepted list to maxSlots no
\* further Search or Classify call is made and the iteration counter stays;
\* the stored iterations_performed is the number of the iteration that
\* accepted the last candidate.
C7_StopWhenSlotsFull ==
    /\ [][(VideoRun
             /\ Len(selected_videos) = YOUTUBE_MAX_VIDEOS_PER_SECTION)
          => (/\ searchCalls' = searchCalls
              /\ classifyCalls' = classifyCalls
              /\ iteration' = iteration)]_vars
    /\ [](( /\ VideoRun
            /\ pc = "done"
            /\ Len(section.video_resources)
                  = YOUTUBE_MAX_VIDEOS_PER_SECTION)
          => section.iterations_performed
                = section.video_resources[YOUTUBE_MAX_VIDEOS_PER_SECTION]
                     .accepted_in)

\* all three slots filled in iteration 1: iterations_performed = 1
C7_Witness ==
    /\ VideoRun
    /\ pc = "done"
    /\ Len(section.video_resources) = YOUTUBE_MAX_VIDEOS_PER_SECTION
    /\ \A i \in 1..Len(section.video_resources) :
          section.video_resources[i].accepted_in = 1
    /\ section.iterations_performed = 1

\* C8 (as claimed): every video run that got past validation ends at Done,
\* never anywhere else, with 0 <= iterations_performed <= maxIterations.
C8_Original ==
    VideoRun =>
        /\ pc \in {"raised", "caught"} => error = "ValueError"
        /\ pc = "done" =>
              /\ 0 <= section.iterations_performed
              /\ section.iterations_performed <= MAX_SEARCH_ITERATIONS

\* the three result fields are present and the coverage is the aggregate of
\* the stored videos (an empty list with coverage 0 included)
FullyPopulated ==
    /\ {"search_queries_used", "video_resources", "content_coverage_status"}
          \subseteq section.keys
    /\ section.coverage_percentage
          = _calculate_section_coverage(section.video_resources)

\* C9 (as claimed): after a run of generate_videos_for_section that got
\* past validation, whether it returned or its exception was swallowed by
\* the orchestrator, the section record is fully populated (or explicitly
\* empty with coverage 0), never partly written.
C9_Original ==
    (variant = "backend" /\ pc \in {"done", "caught"}
        /\ error # "ValueError")
       => FullyPopulated

\* C10: a section without a title makes the backend generators raise
\* ValueError before any GenerateQueries, Search or Classify call and
\* before the section record is touched.
C10_ValidationFirst ==
    (variant # "cli" /\ "title" \notin section.keys) =>
        /\ genCalls = 0
        /\ searchCalls = 0
        /\ classifyCalls = 0
        /\ section = EmptySection({})
        /\ pc \in {"start", "raised", "caught"}
        /\ pc # "start" => error = "ValueError"

\* the video generator has raised ValueError for a section without a title
C10_Witness ==
    /\ variant = "backend"
    /\ pc = "raised"
    /\ error = "ValueError"
    /\ "title" \notin section.keys

\* C11 (as claimed): starvation is not an error.  When the filter of a video
\* run leaves no survivor the engine does not raise: it goes on to the next
\* iteration or to storing the results; and a run that returns with an empty
\* accepted list stores coverage_percentage 0.
C11_Original ==
    /\ [][(VideoRun /\ pc = "filter" /\ filtered_videos' = <<>>)
             => pc' \in {"loop", "store"}]_vars
    /\ []((VideoRun /\ pc = "done" /\ section.video_resources = <<>>)
             => section.coverage_percentage = 0)

\* C12: redundancy base case.  Every video analysed while the accepted list
\* is empty got redundancy_percentage 0, its own topics as unique content,
\* no overlapping topics, and detect_redundancy made no LLM call for it.
C12_RedundancyBaseCase ==
    (VideoRun /\ pc = "filter" /\ selected_videos = <<>>) =>
        \A i \in 1..Len(videos) :
            /\ videos[i].red = 0
            /\ videos[i].unique_new_content = videos[i].topics
            /\ videos[i].overlapping_topics = <<>>
            /\ videos[i].redundancy_calls = 0

\* two videos with different, non-empty topic lists analysed against an
\* empty accepted list
C12_Witness ==
    /\ VideoRun
    /\ pc = "filter"
    /\ selected_videos = <<>>
    /\ \E i, j \in 1..Len(videos) :
          /\ Len(videos[i].topics) = 2
          /\ Len(videos[j].topics) = 1
          /\ videos[i].unique_new_content = videos[i].topics

\* the bracket of the recency table an age falls in
RecencyBracket(age_days) ==
    IF age_days <= 365 THEN 1
    ELSE IF age_days <= 2 * 365 THEN 2
    ELSE IF age_days <= 3 * 365 THEN 3
    ELSE IF age_days <= 5 * 365 THEN 4
    ELSE 5

\* two evaluations of a probe happened on dates at which the video's age is
\* in the same recency bracket (always so without a parsable published_at)
SameRecencyBracket(i, j) ==
    probe.published_at = "ok" =>
        RecencyBracket(probe.age_days + probe.evaluations[i].elapsed_days)
           = RecencyBracket(probe.age_days
                               + probe.evaluations[j].elapsed_days)

PreviousAggregate ==
    IF selected_videos = <<>> THEN 0
    ELSE CoverageSum(selected_videos) \div Len(selected_videos)

C15_Original ==
    (VideoRun /\ pc = "filter") =>
        \A i \in 1..Len(videos) : videos[i].id \notin offered_ids

\* the positions of the cached queries whose priority is in prios
QueriesWithPriority(prios) == {i \in 1..Len(queries) : queries[i] \in prios}

\* the positions searched in the current iteration
QueriesSearched ==
    {queries_this_iteration[k] : k \in 1..Len(queries_this_iteration)}

\* C16: iteration-to-subset policy of the backend video engine.  When an
\* iteration is about to search, the queries it searches are the cached
\* queries with priority primary or secondary in iteration 1, those with
\* priority tertiary or quaternary in iteration 2, and all of them in
\* iteration 3; an empty subset is replaced by the full list; each query is
\* searched once, in the order of the cached list; and the cached list is
\* still the one stored in the section by planning.
C16_SubsetPolicy ==
    (variant = "backend" /\ pc = "search") =>
        LET requested ==
                IF iteration = 1
                THEN QueriesWithPriority({"primary", "secondary"})
                ELSE IF iteration = 2
                THEN QueriesWithPriority({"tertiary", "quaternary"})
                ELSE 1..Len(queries)
        IN  /\ iteration \in 1..MAX_SEARCH_ITERATIONS
            /\ QueriesSearched =
                  IF requested = {} THEN 1..Len(queries) ELSE requested
            /\ \A j, k \in 1..Len(queries_this_iteration) :
                  j < k => queries_this_iteration[j] < queries_this_iteration[k]
            /\ queries \in QueryLists
            /\ queries = section.search_queries_used

\* C16 witness: the second iteration of a backend run whose cached list is
\* the fallback list has no tertiary or quaternary query and searches both
\* cached queries.
C16_Witness ==
    /\ variant = "backend"
    /\ pc = "search"
    /\ iteration = 2
    /\ queries = generate_fallback_queries
    /\ queries_this_iteration = <<1, 2>>

C18_Original ==
    (probe.fn = "video" /\ probe.gates # <<>>
        /\ probe.video.cov < CLI_MIN_CONTENT_COVERAGE_PERCENTAGE) =>
        /\ probe.gates[1].step = "skip"
        /\ ~probe.gates[1].cli

\* C19 (as claimed): duration and view-count gate.  A probed video passes
\* the duration check and the quality check of the backend filter exactly
\* when its duration is strictly between 120 and 1800 seconds and it has at
\* least 100 views.
C19_Original ==
    (probe.fn = "video" /\ probe.gates # <<>>) =>
        ((probe.gates[1].duration /\ probe.gates[1].quality)
            <=> /\ 120 < probe.video.duration_seconds
                /\ probe.video.duration_seconds < 1800
                /\ probe.video.log10_views >= 2)

\* C19: duration and view-count gate.  A probed video passes the duration
\* check and the quality check of the backend filter exactly when its
\* duration is at least 120 and at most 1800 seconds and it has at least 100
\* views; a video that passes the CLI filter has a duration of at least 120
\* seconds and at most the attention span plus 5 minutes, and at least
\* 10,000 views.
C19_InclusiveGate ==
    (probe.fn = "video" /\ probe.gates # <<>>) =>
        /\ (probe.gates[1].duration /\ probe.gates[1].quality)
              <=> /\ 120 <= probe.video.duration_seconds
                  /\ probe.video.duration_seconds <= 1800
                  /\ probe.video.log10_views >= 2
        /\ probe.gates[1].cli
              => /\ 120 <= probe.video.duration_seconds
                 /\ probe.video.duration_seconds
                       <= (ATTENTION_SPAN_MAX + 5) * 60
                 /\ probe.video.log10_views >= CLI_MIN_VIEW_COUNT_LOG10

\* C19 witness: a video of exactly 1800 seconds with exactly 100 views has
\* passed both backend checks.
C19_Witness ==
    /\ probe.fn = "video"
    /\ probe.gates # <<>>
    /\ probe.video.duration_seconds = 1800
    /\ probe.video.log10_views = 2
    /\ probe.gates[1].duration
    /\ probe.gates[1].quality

\* the pool the generators would build if the first k worker tasks had
\* completed in the order they were submitted
RECURSIVE PoolInSubmissionOrder(_)
PoolInSubmissionOrder(k) ==
    IF k = 0 THEN <<>>
    ELSE PoolInSubmissionOrder(k - 1) \o
            [i \in 1..Len(task_outcome[k]) |->
                ResourceRecord(task_outcome[k][i], k, i)]

\* C20 (as claimed): deterministic merge under concurrency.  The top-N list
\* a worksheet or activity run stores lists the same resources (each known
\* by the task that produced it) in the same order as the run in which the
\* worker tasks complete in submission order, whatever order they completed
\* in.
C20_Original ==
    (HandsOnRun /\ pc = "done" /\ all_resources # <<>>) =>
        LET pool == PoolInSubmissionOrder(Len(task_outcome))
            inOrder == IF variant = "worksheet"
                       THEN filter_and_rank_worksheets(pool)
                       ELSE filter_and_rank_activities(pool).out
        IN  section.options = Take(inOrder, num_options)

\* C21 (as claimed): per-task failure isolation.  A worker task that did not
\* complete within TIMEOUT_SECONDS counts as a failure of its candidate, so
\* the pool never holds a result of such a task.
C21_Original ==
    HandsOnRun =>
        \A i \in 1..Len(all_resources) :
            task_seconds[all_resources[i].task] <= TIMEOUT_SECONDS

ChannelAnswered == probe.fn = "channel" /\ probe.answer # <<>>

C27_Original ==
    ChannelAnswered =>
        LET name == Lower(probe.channel_name)
        IN  /\ name \in TableKeys(TIER_1_CHANNELS)
                  => probe.answer[1].tier = 1
            /\ name \in TableKeys(TIER_2_CHANNELS)
                  => probe.answer[1].tier = 2
            /\ (name = TIER_2_CHANNELS[1].key /\ probe.grade_level = 5)
                  => probe.answer[1].score_x2 = 4
            /\ probe.answer[1].tier = -1 => name \in BLACKLIST_CHANNELS

\* the activity filter has run and took its fallback
ActivityFallbackTaken ==
    variant = "activity" /\ pc \in {"hselect", "done"} /\ fallback_used

\* the proxy the fallback ranks by
StepsAndMaterials(r) == r.f.nsteps + (IF r.f.has_materials THEN 10 ELSE 0)

\* the candidates of the pool the fallback ranks: those with a name and a
\* description
NamedAndDescribed ==
    {i \in 1..Len(all_resources) :
        all_resources[i].f.has_name /\ all_resources[i].f.has_description}

\* C24 (as claimed): activity fallback result.  When the fallback was taken,
\* every entry of the result is scored 7.0 and a pool of at least 3
\* candidates gives exactly 3 entries.
C24_Original ==
    ActivityFallbackTaken =>
        /\ \A k \in 1..Len(ranked) : ranked[k].score = FALLBACK_SCORE
        /\ Len(all_resources) >= 3 => Len(ranked) = 3

\* C24: activity fallback result.  When the fallback was taken, the result
\* lists candidates of the pool that have a name and a description, each
\* once and scored 7.0, in descending order of the proxy; no candidate left
\* out has a larger proxy than one listed; and the result has 3 entries when
\* at least 3 candidates have a name and a description, else all of them.
C24_FallbackResult ==
    ActivityFallbackTaken =>
        /\ Len(ranked) = Min(3, Cardinality(NamedAndDescribed))
        /\ \A k \in 1..Len(ranked) :
              /\ ranked[k].score = FALLBACK_SCORE
              /\ ranked[k].has_score
              /\ \E i \in NamedAndDescribed :
                    ranked[k] = [all_resources[i] EXCEPT
                                    !.has_score = TRUE,
                                    !.score = FALLBACK_SCORE]
        /\ \A j, k \in 1..Len(ranked) :
              j < k => /\ StepsAndMaterials(ranked[j])
                            >= StepsAndMaterials(ranked[k])
                       /\ <<ranked[j].task, ranked[j].pos>>
                            # <<ranked[k].task, ranked[k].pos>>
        /\ \A i \in NamedAndDescribed :
              (\A k \in 1..Len(ranked) :
                  <<ranked[k].task, ranked[k].pos>>
                     # <<all_resources[i].task, all_resources[i].pos>>)
              => \A k \in 1..Len(ranked) :
                    StepsAndMaterials(all_resources[i])
                       <= StepsAndMaterials(ranked[k])

\* C24 witness: the fallback was taken on a pool of more than 3 candidates
\* with different proxies and returned 3 of them.
C24_Witness ==
    /\ ActivityFallbackTaken
    /\ Len(all_resources) > 3
    /\ Len(ranked) = 3
    /\ \E i, j \in NamedAndDescribed :
          StepsAndMaterials(all_resources[i])
             # StepsAndMaterials(all_resources[j])

(***************************************************************************)
(* C25: source exhausted.  When the search step of an iteration leaves no  *)
(* candidate id, the video engine leaves the loop at once: the run goes to *)
(* storing its results without another iteration and without a Classify    *)
(* call, whatever slots and iterations remain, and what it stores is what  *)
(* was accepted so far.                                                    *)
(***************************************************************************)
SearchCameUpEmpty == VideoRun /\ pc = "search" /\ all_video_ids' = {}

StoppedOnEmptySearch ==
    VideoRun /\ pc \in {"store", "done"} /\ stop_reason = "no videos found"

C25_SourceExhausted ==
    /\ [][SearchCameUpEmpty =>
             /\ pc' = "store"
             /\ stop_reason' = "no videos found"
             /\ classifyCalls' = classifyCalls
             /\ iteration' = iteration
             /\ selected_videos' = selected_videos]_vars
    /\ [][StoppedOnEmptySearch /\ pc = "store" =>
             /\ pc' = "done"
             /\ classifyCalls' = classifyCalls
             /\ searchCalls' = searchCalls
             /\ iteration' = iteration
             /\ section'.video_resources = selected_videos]_vars
    /\ [][StoppedOnEmptySearch /\ pc = "done" => UNCHANGED vars]_vars

\* a CLI run that accepted a video in iteration 1, found nothing new in
\* iteration 2 and stored the one video, with slots and an iteration left
C25_Witness ==
    /\ variant = "cli"
    /\ pc = "done"
    /\ stop_reason = "no videos found"
    /\ iteration = 2
    /\ iteration < MAX_SEARCH_ITERATIONS
    /\ Len(selected_videos) = 1
    /\ Len(selected_videos) < YOUTUBE_MAX_VIDEOS_PER_SECTION
    /\ section.video_resources = selected_videos

(***************************************************************************)
(* C26: classify-failure defaults.  When the external call fails or        *)
(* returns data that cannot be read, detect_redundancy (asked with a       *)
(* non-empty accepted list) returns redundancy 20 with the candidate's own *)
(* topics as unique content, and calculate_content_coverage returns        *)
(* coverage 50; no exception reaches the engine, and the analysis goes on  *)
(* with the remaining candidates, which get what the LLM said of them.     *)
(***************************************************************************)
AnalysisDone == probe.fn = "analysis" /\ probe.result # <<>>

CallFailed(reply) == reply.kind \in {"api_error", "invalid_json", "json_list"}

C26_FailureDefaults ==
    AnalysisDone =>
        LET out == probe.result[1]
            n == Len(AnalysisCandidates)
        IN  /\ ~out.raised
            /\ Len(out.videos) = n
            /\ \A i \in 1..n :
                  LET v == out.videos[i]
                      r == probe.replies[i]
                  IN  /\ v.topics_covered = AnalysisCandidates[i]
                      /\ v.content_coverage.coverage_percentage =
                            IF CallFailed(r.coverage) THEN 50
                            ELSE r.coverage.value
                      /\ probe.existing_videos_data # <<>> =>
                            IF CallFailed(r.redundancy)
                            THEN /\ v.redundancy_analysis
                                       .redundancy_percentage = 20
                                 /\ v.redundancy_analysis.unique_new_content
                                       = AnalysisCandidates[i]
                                 /\ v.redundancy_analysis.overlapping_topics
                                       = <<>>
                            ELSE v.redundancy_analysis.redundancy_percentage
                                    = r.redundancy.value

\* both calls fail for the first video (API error, reply that is not JSON)
\* with a video accepted before: it gets 50 and 20, and the second video is
\* analysed with the LLM's own answers
C26_Witness ==
    /\ AnalysisDone
    /\ probe.existing_videos_data # <<>>
    /\ probe.replies[1].coverage.kind = "api_error"
    /\ probe.replies[1].redundancy.kind = "invalid_json"
    /\ probe.replies[2].coverage = [kind |-> "object", value |-> 90]
    /\ probe.replies[2].redundancy = [kind |-> "object", value |-> 35]
    /\ ~probe.result[1].raised
    /\ probe.result[1].videos[1].content_coverage.coverage_percentage = 50
    /\ probe.result[1].videos[1].redundancy_analysis.redundancy_percentage
          = 20
    /\ probe.result[1].videos[1].redundancy_analysis.unique_new_content
          = AnalysisCandidates[1]
    /\ probe.result[1].videos[2].content_coverage.coverage_percentage = 90
    /\ probe.result[1].videos[2].redundancy_analysis.redundancy_percentage
          = 35

(***************************************************************************)
(* C28: single accepting iteration of the backend video engine.  In every  *)
(* run of generate_videos_for_section the accepted videos all come from    *)
(* one iteration, so detect_redundancy is only ever asked with an empty    *)
(* accepted list: it makes no LLM call, and every analysed and every       *)
(* accepted video carries redundancy_percentage 0.                         *)
(***************************************************************************)
BackendRun == variant = "backend"

AcceptedInOneIteration(accepted) ==
    \A i, j \in 1..Len(accepted) :
        accepted[i].accepted_in = accepted[j].accepted_in

DistinctIds(accepted) ==
    \A i, j \in 1..Len(accepted) :
        accepted[i].id = accepted[j].id => i = j

IsPrefix(s, t) == Len(s) <= Len(t) /\ SubSeq(t, 1, Len(s)) = s

C29_NoDuplicateAcceptance ==
    /\ [](VideoRun => /\ DistinctIds(selected_videos)
                      /\ DistinctIds(section.video_resources))
    /\ [][VideoRun /\ pc # "plan" =>
             IsPrefix(selected_videos, selected_videos')]_vars

\* a CLI run that accepted in two iterations: the id accepted in iteration
\* 1 was found again by the searches of iteration 2 and removed as used
C29_Witness ==
    /\ variant = "cli"
    /\ pc = "done"
    /\ Len(section.video_resources) = 3
    /\ section.video_resources[1].accepted_in = 1
    /\ section.video_resources[2].accepted_in = 2
    /\ section.video_resources[3].accepted_in = 3
    /\ DistinctIds(section.video_resources)
    /\ used_video_ids =
          {section.video_resources[i].id : i \in 1..3}

(***************************************************************************)
(* C30: cross-section uniqueness in the CLI populator.  After              *)
(* generate_resources_for_outline has processed any number of sections of  *)
(* an outline, no video id is in the video_resources of two different      *)
(* sections: the ids accepted for an earlier section are removed from the  *)
(* candidates of every later section before they are evaluated.            *)
(***************************************************************************)
\* the id sets stored so far, the section just stored included
StoredSoFar ==
    IF pc = "done"
    THEN Append(earlier_sections, StoredIds(section.video_resources))
    ELSE earlier_sections

C30_CrossSectionUniqueness ==
    /\ \A a, b \in 1..Len(StoredSoFar) :
          a # b => StoredSoFar[a] \cap StoredSoFar[b] = {}
    /\ variant = "cli" =>
          /\ \A a \in 1..Len(earlier_sections) :
                earlier_sections[a] \subseteq used_video_ids
          /\ pc \in {"analyze", "filter"} =>
                \A a \in 1..Len(earlier_sections) :
                    /\ all_video_ids \cap earlier_sections[a] = {}
                    /\ \A i \in 1..Len(videos) :
                          videos[i].id \notin earlier_sections[a]

\* an outline of two sections enriched, each section with two videos
C30_Witness ==
    /\ variant = "cli"
    /\ pc = "done"
    /\ Len(earlier_sections) = 1
    /\ Cardinality(earlier_sections[1]) = 2
    /\ Len(section.video_resources) = 2
    /\ StoredIds(section.video_resources) \cap earlier_sections[1] = {}
    /\ searchCalls > 0

====
